---- MODULE Spec2Model ----
(***************************************************************************)
(* Model of the business-analytics repository: the relational store        *)
(* (customers, products, transactions) defined by the schema scripts, the  *)
(* canned analysis queries run over it, and the custom-query validation.   *)
(*                                                                         *)
(* Money is kept in cents (DECIMAL(10,2) * 100), so 10.00 is 1000 and      *)
(* 10.01 is 1001.  An average or a ratio is an exact fraction [n, d].      *)
(***************************************************************************)
EXTENDS Integers, Sequences, FiniteSets, TLC

VARIABLES customers, products, transactions, out, calls, ui, schema, sales_summary

vars == <<customers, products, transactions, out, calls, ui, schema, sales_summary>>

(***************************************************************************)
(* Bounds of the model.                                                    *)
(***************************************************************************)
MaxTx == 3

MaxJoinTx == 2

MaxCust == 2

MaxCalls == 2

(***************************************************************************)
(* SQL values.  NULL of a text column is a reserved text; a numeric        *)
(* aggregate is a record that says whether it is NULL.                     *)
(***************************************************************************)
NULL == "<NULL>"

NullNum == [null |-> TRUE, n |-> 0, d |-> 1]

Q(n, d) == [null |-> FALSE, n |-> n, d |-> d]

Num(v) == Q(v, 1)

QEq(a, b) == a.null = b.null /\ (~a.null => a.n * b.d = b.n * a.d)

QLess(a, b) == a.n * b.d < b.n * a.d

Abs(x) == IF x < 0 THEN -x ELSE x

QAdd(a, b) == Q(a.n * b.d + b.n * a.d, a.d * b.d)

RECURSIVE SumQ(_, _)
SumQ(f, S) == IF S = {} THEN Num(0) ELSE LET r == CHOOSE x \in S : TRUE IN QAdd(f[r], SumQ(f, S \ {r}))

QDiv(a, k) == Q(a.n, a.d * k)

(***************************************************************************)
(* Aggregates over a set of rows.                                          *)
(***************************************************************************)
RECURSIVE SumFn(_, _)
SumFn(f, S) == IF S = {} THEN 0 ELSE LET r == CHOOSE x \in S : TRUE IN f[r] + SumFn(f, S \ {r})

COUNT(S) == Cardinality(S)

SUM_recomputed_amount(S) == SumFn([t \in S |-> t.quantity * t.unit_price - t.discount_amount], S)

SUM_total_amount(S) == SumFn([t \in S |-> t.total_amount], S)

SUM_quantity(S) == SumFn([t \in S |-> t.quantity], S)

AVG_total_amount(S) == IF S = {} THEN NullNum ELSE Q(SUM_total_amount(S), COUNT(S))

AVG_quantity(S) == IF S = {} THEN NullNum ELSE Q(SUM_quantity(S), COUNT(S))

COUNT_DISTINCT_customer_id(S) == Cardinality({t.customer_id : t \in S})

(***************************************************************************)
(* ORDER BY: every sequence that lists the rows of S once, with no row     *)
(* placed after a row it must strictly precede (Precedes is the set of     *)
(* pairs <<a, b>> with a sorted strictly before b).  Rows that compare     *)
(* equal under the sort key may come out in either order.                  *)
(***************************************************************************)
OrderBy(S, Precedes) == {s \in [1..Cardinality(S) -> S] :
                            (\A i \in 1..Cardinality(S) : \A j \in 1..Cardinality(S) :
                                 (i # j => s[i] # s[j]) /\ (i < j => <<s[j], s[i]>> \notin Precedes))}

Min(a, b) == IF a < b THEN a ELSE b

LIMIT(s, n) == SubSeq(s, 1, Min(n, Len(s)))

SeqToSet(s) == {s[i] : i \in 1..Len(s)}

(***************************************************************************)
(* strftime('%Y-%m', transaction_date): the year and month of a date.      *)
(* 'YYYY-MM' texts compare as (year, month) pairs.                         *)
(***************************************************************************)
Date(y, m, d) == [y |-> y, m |-> m, d |-> d]

strftime_m(date) == <<0, date.m>>

strftime_Ym(date) == <<date.y, date.m>>

MonthBefore(a, b) == a[1] < b[1] \/ (a[1] = b[1] /\ a[2] < b[2])

(***************************************************************************)
(* Rows offered to the INSERT statements.                                  *)
(***************************************************************************)
Customer(id, segment, state) == [customer_id |-> id, customer_segment |-> segment, state |-> state]

Product(id, name, category, brand, price, cost) == [product_id |-> id, product_name |-> name, category |-> category, brand |-> brand, price |-> price, cost |-> cost]

Transaction(id, c, p, date, quantity, unit_price, total, discount, payment, channel) ==
    [transaction_id |-> id, customer_id |-> c, product_id |-> p, transaction_date |-> date,
     quantity |-> quantity, unit_price |-> unit_price, total_amount |-> total,
     discount_amount |-> discount, payment_method |-> payment, sales_channel |-> channel]

TxIds == 1..MaxTx

CallIds == 1..MaxCalls

(***************************************************************************)
(* The tables.                                                             *)
(***************************************************************************)
Segments == {"Premium", "Standard", "Basic"}

PaymentMethods == {"Credit Card", "Debit Card", "Cash", "PayPal"}

SalesChannels == {"Online", "In-Store", "Mobile App"}

CustomerOk(c) == c.customer_segment = NULL \/ c.customer_segment \in Segments

TransactionOk(t) == /\ t.payment_method = NULL \/ t.payment_method \in PaymentMethods
                    /\ t.sales_channel = NULL \/ t.sales_channel \in SalesChannels

Idle == [phase |-> "idle"]

(***************************************************************************)
(* The dashboard before it is mounted: the initial values of the useState  *)
(* hooks of App, DatasetSelector and DataVisualization, and nothing        *)
(* rendered yet.                                                           *)
(***************************************************************************)
InitialUI == [mounted |-> FALSE,
              selectedPeriod |-> "last6months",
              selectedState |-> "all",
              selectedMetric |-> "transactions",
              chartType |-> "line",
              selectedDataset |-> "aggregate-transaction",
              selector_selectedDataset |-> "aggregate-transaction",
              viewType |-> "chart",
              lastViewButton |-> NULL,
              filterState |-> "all",
              heatMapGrowth |-> <<>>,
              mapGrowth |-> <<>>]

(***************************************************************************)
(* The schema scripts.  The database catalog (sqlite_master) is a set of   *)
(* objects; a script is a sequence of statements.  DROP TABLE removes the  *)
(* table with its indexes and is an error on a view; CREATE is an error    *)
(* when the name is taken.  The program that runs a script is not part of  *)
(* the sources: it may stop at the first error or carry on with the next   *)
(* statement (bail).                                                       *)
(***************************************************************************)
Object(type, name, tbl_name) == [type |-> type, name |-> name, tbl_name |-> tbl_name]

DropTableIfExists(name) == [stmt |-> "DROP TABLE IF EXISTS", name |-> name, on |-> name]

CreateTable(name) == [stmt |-> "CREATE TABLE", name |-> name, on |-> name]

CreateIndexOn(name, table) == [stmt |-> "CREATE INDEX", name |-> name, on |-> table]

CreateView(name) == [stmt |-> "CREATE VIEW", name |-> name, on |-> name]

schema_sql == <<DropTableIfExists("transactions"), DropTableIfExists("customers"),
                DropTableIfExists("products"), DropTableIfExists("sales_summary"),
                CreateTable("customers"), CreateTable("products"),
                CreateTable("transactions"), CreateTable("sales_summary"),
                CreateIndexOn("idx_transactions_date", "transactions"),
                CreateIndexOn("idx_transactions_customer", "transactions"),
                CreateIndexOn("idx_transactions_product", "transactions"),
                CreateIndexOn("idx_customers_segment", "customers"),
                CreateIndexOn("idx_products_category", "products"),
                CreateIndexOn("idx_sales_summary_date", "sales_summary"),
                CreateView("customer_metrics"), CreateView("product_performance"),
                CreateView("monthly_sales_trend")>>

schema_only_sql == <<DropTableIfExists("customers"), DropTableIfExists("products"),
                     DropTableIfExists("transactions"), DropTableIfExists("sales_summary"),
                     DropTableIfExists("customer_metrics"),
                     CreateTable("customers"), CreateTable("products"),
                     CreateTable("transactions"), CreateTable("sales_summary"),
                     CreateTable("customer_metrics")>>

Scripts == [schema |-> schema_sql, schema_only |-> schema_only_sql]

Named(catalog, name) == {o \in catalog : o.name = name}

HasTable(catalog, name) == \E o \in catalog : o.type = "table" /\ o.name = name

StatementOk(catalog, st) ==
    CASE st.stmt = "DROP TABLE IF EXISTS" -> ~\E o \in Named(catalog, st.name) : o.type = "view"
      [] st.stmt = "CREATE INDEX" -> Named(catalog, st.name) = {} /\ HasTable(catalog, st.on)
      [] OTHER -> Named(catalog, st.name) = {}

StatementEffect(catalog, st) ==
    CASE st.stmt = "DROP TABLE IF EXISTS" ->
             {o \in catalog : ~(o.tbl_name = st.name /\ o.type \in {"table", "index"})}
      [] st.stmt = "CREATE TABLE" -> catalog \cup {Object("table", st.name, st.name)}
      [] st.stmt = "CREATE INDEX" -> catalog \cup {Object("index", st.name, st.on)}
      [] st.stmt = "CREATE VIEW" -> catalog \cup {Object("view", st.name, st.name)}

RECURSIVE ExecFrom(_, _, _, _)
ExecFrom(script, k, run, bail) ==
    IF k > Len(script) THEN run
    ELSE LET st == script[k] IN
         IF StatementOk(run.catalog, st)
            THEN ExecFrom(script, k + 1,
                          [run EXCEPT !.catalog = StatementEffect(run.catalog, st),
                                      !.dropped = IF st.stmt = "DROP TABLE IF EXISTS" /\ HasTable(run.catalog, st.name)
                                                     THEN run.dropped \cup {st.name} ELSE run.dropped],
                          bail)
            ELSE IF bail THEN [run EXCEPT !.status = "error"]
                 ELSE ExecFrom(script, k + 1, [run EXCEPT !.status = "error"], bail)

ExecScript(script, catalog, bail) ==
    ExecFrom(script, 1, [catalog |-> catalog, status |-> "ok", dropped |-> {}], bail)

Init == /\ customers = {}
        /\ products = {}
        /\ transactions = {}
        /\ out = [op |-> "schema", status |-> "ok", arg |-> <<>>, rows |-> <<>>]
        /\ calls = [i \in CallIds |-> Idle]
        /\ ui = InitialUI
        /\ schema = ExecScript(schema_sql, {}, TRUE).catalog
        /\ sales_summary = {}

Output(op, status, arg, rows) == [op |-> op, status |-> status, arg |-> arg, rows |-> rows]

InsertCustomer(c) == /\ IF CustomerOk(c) /\ c.customer_id \notin {x.customer_id : x \in customers}
                           THEN /\ customers' = customers \cup {c}
                                /\ out' = Output("insert_customer", "ok", <<>>, <<>>)
                           ELSE /\ customers' = customers
                                /\ out' = Output("insert_customer", "rejected", <<>>, <<>>)
                     /\ UNCHANGED <<products, transactions, calls, ui, schema, sales_summary>>

InsertProduct(p) == /\ IF p.product_id \notin {x.product_id : x \in products}
                          THEN /\ products' = products \cup {p}
                               /\ out' = Output("insert_product", "ok", <<>>, <<>>)
                          ELSE /\ products' = products
                               /\ out' = Output("insert_product", "rejected", <<>>, <<>>)
                    /\ UNCHANGED <<customers, transactions, calls, ui, schema, sales_summary>>

InsertTransaction(t) == /\ IF TransactionOk(t) /\ t.transaction_id \notin {x.transaction_id : x \in transactions}
                              THEN /\ transactions' = transactions \cup {t}
                                   /\ out' = Output("insert_transaction", "ok", <<>>, <<>>)
                              ELSE /\ transactions' = transactions
                                   /\ out' = Output("insert_transaction", "rejected", <<>>, <<>>)
                        /\ UNCHANGED <<customers, products, calls, ui, schema, sales_summary>>

(***************************************************************************)
(* 9. Discount impact analysis.                                            *)
(***************************************************************************)
discount_category_strict(t) == IF t.discount_amount = 0 THEN "No Discount"
                               ELSE IF t.discount_amount < 1000 THEN "Low Discount (<=$10)"
                               ELSE IF t.discount_amount < 2500 THEN "Medium Discount ($11-$25)"
                               ELSE "High Discount (>$25)"

discount_category(t) == IF t.discount_amount = 0 THEN "No Discount"
                        ELSE IF t.discount_amount <= 1000 THEN "Low Discount (<=$10)"
                        ELSE IF t.discount_amount <= 2500 THEN "Medium Discount ($11-$25)"
                        ELSE "High Discount (>$25)"

DiscountGroup(k) == {t \in transactions : discount_category(t) = k}

DiscountRow(k) == [discount_category |-> k,
                   transaction_count |-> COUNT(DiscountGroup(k)),
                   avg_order_value |-> AVG_total_amount(DiscountGroup(k)),
                   avg_items_per_order |-> AVG_quantity(DiscountGroup(k)),
                   total_revenue |-> SUM_total_amount(DiscountGroup(k))]

DiscountLabels == {"No Discount", "Low Discount (<=$10)", "Medium Discount ($11-$25)", "High Discount (>$25)"}

DiscountImpactRows_dense == {DiscountRow(k) : k \in DiscountLabels}

DiscountImpactRows == {DiscountRow(k) : k \in {discount_category(t) : t \in transactions}}

ByAvgOrderValueDesc(S) == {p \in S \X S : QLess(p[2].avg_order_value, p[1].avg_order_value)}

DiscountImpact == OrderBy(DiscountImpactRows, ByAvgOrderValueDesc(DiscountImpactRows))

RunDiscountImpact == /\ \E rows \in DiscountImpact : out' = Output("discount_impact", "ok", <<>>, rows)
                     /\ UNCHANGED <<customers, products, transactions, calls, ui, schema, sales_summary>>

(***************************************************************************)
(* 2. Monthly sales trend analysis (and the monthly_sales_trend view).     *)
(***************************************************************************)
MonthGroup(m) == {t \in transactions : strftime_Ym(t.transaction_date) = m}

MonthRow(m) == [month |-> m,
                total_transactions |-> COUNT(MonthGroup(m)),
                total_revenue |-> SUM_total_amount(MonthGroup(m)),
                avg_order_value |-> AVG_total_amount(MonthGroup(m)),
                unique_customers |-> COUNT_DISTINCT_customer_id(MonthGroup(m)),
                total_items_sold |-> SUM_quantity(MonthGroup(m))]

MonthlyTrendRows == {MonthRow(m) : m \in {strftime_Ym(t.transaction_date) : t \in transactions}}

ByMonth(S) == {p \in S \X S : MonthBefore(p[1].month, p[2].month)}

MonthlyTrend == OrderBy(MonthlyTrendRows, ByMonth(MonthlyTrendRows))

RunMonthlyTrend == /\ \E rows \in MonthlyTrend : out' = Output("monthly_trend", "ok", <<>>, rows)
                   /\ UNCHANGED <<customers, products, transactions, calls, ui, schema, sales_summary>>

(***************************************************************************)
(* ROUND(n * 100.0 / d, 2), in hundredths of a percent point.              *)
(***************************************************************************)
ROUND2_percent_truncated(n, d) == (100 * 100 * n) \div d

ROUND2_percent(n, d) == (2 * 100 * 100 * n + d) \div (2 * d)

(***************************************************************************)
(* 3. Product category performance: products JOIN transactions.            *)
(***************************************************************************)
NullProduct == Product(0, NULL, NULL, NULL, 0, 0)

ProductsJoinTransactions_outer == {j \in products \X transactions : j[1].product_id = j[2].product_id}
                                  \cup {<<NullProduct, t>> : t \in {x \in transactions : \A p \in products : p.product_id # x.product_id}}

ProductsJoinTransactions == {j \in products \X transactions : j[1].product_id = j[2].product_id}

CustomersJoinTransactions == {j \in customers \X transactions : j[1].customer_id = j[2].customer_id}

CategoryGroup(k) == {j[2] : j \in {x \in ProductsJoinTransactions : x[1].category = k}}

CategoryKeys == {j[1].category : j \in ProductsJoinTransactions}

CategoryRow(k) == [category |-> k,
                   total_sales |-> COUNT(CategoryGroup(k)),
                   total_revenue |-> SUM_total_amount(CategoryGroup(k)),
                   avg_sale_amount |-> AVG_total_amount(CategoryGroup(k)),
                   total_quantity_sold |-> SUM_quantity(CategoryGroup(k)),
                   unique_customers |-> COUNT_DISTINCT_customer_id(CategoryGroup(k))]

ByTotalRevenueAsc(S) == {p \in S \X S : p[1].total_revenue < p[2].total_revenue}

ByTotalRevenueDesc(S) == {p \in S \X S : p[1].total_revenue > p[2].total_revenue}

CategoryPerformance == LET rows == {CategoryRow(k) : k \in CategoryKeys} IN OrderBy(rows, ByTotalRevenueDesc(rows))

RunCategoryPerformance == /\ \E rows \in CategoryPerformance : out' = Output("category_performance", "ok", <<>>, rows)
                          /\ UNCHANGED <<customers, products, transactions, calls, ui, schema, sales_summary>>

(***************************************************************************)
(* 5. Sales channel performance.                                           *)
(***************************************************************************)
ChannelGroup(k) == {t \in transactions : t.sales_channel = k}

ChannelRow(k) == [sales_channel |-> k,
                  total_transactions |-> COUNT(ChannelGroup(k)),
                  total_revenue |-> SUM_total_amount(ChannelGroup(k)),
                  avg_order_value |-> AVG_total_amount(ChannelGroup(k)),
                  unique_customers |-> COUNT_DISTINCT_customer_id(ChannelGroup(k)),
                  percentage_of_total |-> ROUND2_percent(COUNT(ChannelGroup(k)), COUNT(transactions))]

ChannelPerformance == LET rows == {ChannelRow(k) : k \in {t.sales_channel : t \in transactions}}
                      IN  OrderBy(rows, ByTotalRevenueDesc(rows))

RunChannelPerformance == /\ \E rows \in ChannelPerformance : out' = Output("channel_performance", "ok", <<>>, rows)
                         /\ UNCHANGED <<customers, products, transactions, calls, ui, schema, sales_summary>>

(***************************************************************************)
(* 6. Payment method analysis.                                             *)
(***************************************************************************)
PaymentGroup(k) == {t \in transactions : t.payment_method = k}

PaymentRow(k) == [payment_method |-> k,
                  transaction_count |-> COUNT(PaymentGroup(k)),
                  total_amount |-> SUM_total_amount(PaymentGroup(k)),
                  avg_transaction_value |-> AVG_total_amount(PaymentGroup(k)),
                  usage_percentage |-> ROUND2_percent(COUNT(PaymentGroup(k)), COUNT(transactions))]

ByTransactionCountDesc(S) == {p \in S \X S : p[1].transaction_count > p[2].transaction_count}

PaymentAnalysis == LET rows == {PaymentRow(k) : k \in {t.payment_method : t \in transactions}}
                   IN  OrderBy(rows, ByTransactionCountDesc(rows))

RunPaymentAnalysis == /\ \E rows \in PaymentAnalysis : out' = Output("payment_analysis", "ok", <<>>, rows)
                      /\ UNCHANGED <<customers, products, transactions, calls, ui, schema, sales_summary>>

(***************************************************************************)
(* 10. Geographic sales distribution: customers JOIN transactions.         *)
(***************************************************************************)
StateGroup(k) == {j[2] : j \in {x \in CustomersJoinTransactions : x[1].state = k}}

StateRow(k) == [state |-> k,
                customer_count |-> COUNT_DISTINCT_customer_id(StateGroup(k)),
                total_transactions |-> COUNT(StateGroup(k)),
                total_revenue |-> SUM_total_amount(StateGroup(k)),
                avg_order_value |-> AVG_total_amount(StateGroup(k))]

GeographicDistribution == LET rows == {StateRow(k) : k \in {j[1].state : j \in CustomersJoinTransactions}}
                          IN  OrderBy(rows, ByTotalRevenueDesc(rows))

RunGeographicDistribution == /\ \E rows \in GeographicDistribution : out' = Output("geographic_distribution", "ok", <<>>, rows)
                             /\ UNCHANGED <<customers, products, transactions, calls, ui, schema, sales_summary>>

(***************************************************************************)
(* The customer_metrics view: customers LEFT JOIN transactions, one row    *)
(* per customer, also for a customer without transactions.                 *)
(***************************************************************************)
TransactionsOf(c) == {t \in transactions : t.customer_id = c.customer_id}

customer_metrics_row(c) == [customer_id |-> c.customer_id,
                            customer_segment |-> c.customer_segment,
                            state |-> c.state,
                            total_transactions |-> COUNT(TransactionsOf(c)),
                            total_spent |-> IF TransactionsOf(c) = {} THEN NullNum ELSE Num(SUM_total_amount(TransactionsOf(c))),
                            avg_order_value |-> AVG_total_amount(TransactionsOf(c))]

customer_metrics == {customer_metrics_row(c) : c \in customers}

(***************************************************************************)
(* 4. Customer segmentation analysis, over customer_metrics.  AVG skips    *)
(* NULL and is NULL when every value is NULL; NULL sorts last under DESC.  *)
(***************************************************************************)
SegmentGroup(k) == {m \in customer_metrics : m.customer_segment = k}

AVG_total_spent(S) == LET V == {m \in S : ~m.total_spent.null}
                      IN  IF V = {} THEN NullNum ELSE QDiv(SumQ([m \in V |-> m.total_spent], V), Cardinality(V))

AVG_avg_order_value(S) == LET V == {m \in S : ~m.avg_order_value.null}
                          IN  IF V = {} THEN NullNum ELSE QDiv(SumQ([m \in V |-> m.avg_order_value], V), Cardinality(V))

AVG_total_transactions(S) == IF S = {} THEN NullNum ELSE Q(SumFn([m \in S |-> m.total_transactions], S), Cardinality(S))

SegmentRow(k) == [customer_segment |-> k,
                  customer_count |-> COUNT(SegmentGroup(k)),
                  avg_customer_value |-> AVG_total_spent(SegmentGroup(k)),
                  avg_transactions_per_customer |-> AVG_total_transactions(SegmentGroup(k)),
                  avg_order_value |-> AVG_avg_order_value(SegmentGroup(k))]

ByAvgCustomerValueDesc(S) == {p \in S \X S : \/ (~p[1].avg_customer_value.null /\ p[2].avg_customer_value.null)
                                             \/ (/\ ~p[1].avg_customer_value.null
                                                 /\ ~p[2].avg_customer_value.null
                                                 /\ QLess(p[2].avg_customer_value, p[1].avg_customer_value))}

CustomerSegmentation == LET rows == {SegmentRow(k) : k \in {m.customer_segment : m \in customer_metrics}}
                        IN  OrderBy(rows, ByAvgCustomerValueDesc(rows))

RunCustomerSegmentation == /\ \E rows \in CustomerSegmentation : out' = Output("customer_segmentation", "ok", <<>>, rows)
                           /\ UNCHANGED <<customers, products, transactions, calls, ui, schema, sales_summary>>

(***************************************************************************)
(* 1. Top 10 customers by total spending: customers JOIN transactions,     *)
(* ORDER BY total_spent DESC LIMIT 10.  The query names no second sort     *)
(* key, so customers of equal total_spent come out in either order.        *)
(***************************************************************************)
TopLimit == 10

CustomerGroup(c) == {j[2] : j \in {x \in CustomersJoinTransactions : x[1] = c}}

TopCustomerRow(c) == [customer_id |-> c.customer_id,
                      customer_segment |-> c.customer_segment,
                      total_spent |-> SUM_total_amount(CustomerGroup(c)),
                      total_orders |-> COUNT(CustomerGroup(c)),
                      avg_order_value |-> AVG_total_amount(CustomerGroup(c))]

ByTotalSpentDesc(S) == {p \in S \X S : p[1].total_spent > p[2].total_spent}

TopCustomers == LET rows == {TopCustomerRow(c) : c \in {j[1] : j \in CustomersJoinTransactions}}
                IN  {LIMIT(s, TopLimit) : s \in OrderBy(rows, ByTotalSpentDesc(rows))}

RunTopCustomers_consuming == /\ \E rows \in TopCustomers : out' = Output("top_customers", "ok", <<>>, rows)
                             /\ transactions' = {}
                             /\ UNCHANGED <<customers, products, calls, ui, schema, sales_summary>>

RunTopCustomers == /\ \E rows \in TopCustomers : out' = Output("top_customers", "ok", <<>>, rows)
                   /\ UNCHANGED <<customers, products, transactions, calls, ui, schema, sales_summary>>

(***************************************************************************)
(* 7. Top performing products: products JOIN transactions, ORDER BY        *)
(* total_revenue DESC LIMIT 10.  total_profit is in cents.                 *)
(***************************************************************************)
ProductGroup(p) == {j[2] : j \in {x \in ProductsJoinTransactions : x[1] = p}}

TopProductRow(p) == [product_name |-> p.product_name,
                     category |-> p.category,
                     brand |-> p.brand,
                     price |-> p.price,
                     times_sold |-> COUNT(ProductGroup(p)),
                     total_quantity |-> SUM_quantity(ProductGroup(p)),
                     total_revenue |-> SUM_total_amount(ProductGroup(p)),
                     total_profit |-> (p.price - p.cost) * SUM_quantity(ProductGroup(p))]

TopProducts == LET rows == {TopProductRow(p) : p \in {j[1] : j \in ProductsJoinTransactions}}
               IN  {LIMIT(s, TopLimit) : s \in OrderBy(rows, ByTotalRevenueDesc(rows))}

RunTopProducts == /\ \E rows \in TopProducts : out' = Output("top_products", "ok", <<>>, rows)
                  /\ UNCHANGED <<customers, products, transactions, calls, ui, schema, sales_summary>>

(***************************************************************************)
(* Number.toFixed(1) of n / d, in tenths: the nearest tenth, a tie going   *)
(* away from zero.                                                         *)
(***************************************************************************)
Sign(x) == IF x < 0 THEN -1 ELSE 1

toFixed1(n, d) == Sign(n) * Sign(d) * ((2 * 10 * Abs(n) + Abs(d)) \div (2 * Abs(d)))

Ratio(kind, tenths) == [kind |-> kind, tenths |-> tenths]

NoRatio == Ratio("null", 0)

(***************************************************************************)
(* ((latest - previous) / previous * 100).toFixed(1): the growth of one    *)
(* period over the one before.  A JavaScript division by zero is NaN for   *)
(* 0 / 0 and an infinity otherwise.                                        *)
(***************************************************************************)
growthRate_overCurrent(latest, previous) == IF latest = 0 THEN Ratio("NaN", 0)
                                            ELSE Ratio("number", toFixed1((latest - previous) * 100, latest))

growthRate(latest, previous) == IF previous = 0
                                   THEN (IF latest = 0 THEN Ratio("NaN", 0)
                                         ELSE IF latest > 0 THEN Ratio("Infinity", 0) ELSE Ratio("-Infinity", 0))
                                   ELSE Ratio("number", toFixed1((latest - previous) * 100, previous))

(***************************************************************************)
(* sales_performance_analysis: the monthly trend with a growth rate per    *)
(* row, the first row having none.                                         *)
(***************************************************************************)
WithGrowth(rows) == [i \in 1..Len(rows) |->
                        [month |-> rows[i].month,
                         total_transactions |-> rows[i].total_transactions,
                         total_revenue |-> rows[i].total_revenue,
                         growth_rate |-> IF i = 1 THEN NoRatio
                                         ELSE growthRate(rows[i].total_revenue, rows[i - 1].total_revenue)]]

RunMonthlyGrowth == /\ \E rows \in MonthlyTrend : out' = Output("monthly_growth", "ok", <<>>, WithGrowth(rows))
                    /\ UNCHANGED <<customers, products, transactions, calls, ui, schema, sales_summary>>

(***************************************************************************)
(* sales_performance_analysis: the four KPIs of the overview page.         *)
(***************************************************************************)
TotalMetrics_sql == [total_revenue |-> SUM_total_amount(transactions),
                     total_transactions |-> COUNT(transactions),
                     avg_order_value |-> AVG_total_amount(transactions),
                     unique_customers |-> COUNT_DISTINCT_customer_id(transactions)]

TotalMetrics == [total_revenue |-> SUM_total_amount(transactions),
                 total_transactions |-> COUNT(transactions),
                 avg_order_value |-> IF COUNT(transactions) = 0 THEN Num(0) ELSE AVG_total_amount(transactions),
                 unique_customers |-> COUNT_DISTINCT_customer_id(transactions)]

RunTotalMetrics == /\ out' = Output("total_metrics", "ok", <<>>, <<TotalMetrics>>)
                   /\ UNCHANGED <<customers, products, transactions, calls, ui, schema, sales_summary>>

Discounts == {-500, 0, 1000, 1001, 2500, 2501}

DiscountTxRows == {Transaction(id, 1, 1, Date(2023, 5, 1), 1, 3000, total, disc, "Cash", "Online") :
                       id \in TxIds, total \in {2000, 3000}, disc \in Discounts}

NextDiscount == \/ \E t \in DiscountTxRows : InsertTransaction(t)
                \/ RunDiscountImpact

SpecDiscount == Init /\ [][NextDiscount]_vars

(***************************************************************************)
(* C3: every transaction with a discount of 0 is counted in "No Discount", *)
(* with 0 < discount <= 10.00 in "Low", with 10.00 < discount <= 25.00 in  *)
(* "Medium" and with discount > 25.00 in "High", and in no other bucket:   *)
(* each returned bucket counts exactly the transactions of its range.      *)
(***************************************************************************)
ClaimedBucket(d) == IF d = 0 THEN "No Discount"
                    ELSE IF 0 < d /\ d <= 1000 THEN "Low Discount (<=$10)"
                    ELSE IF 1000 < d /\ d <= 2500 THEN "Medium Discount ($11-$25)"
                    ELSE IF d > 2500 THEN "High Discount (>$25)"
                    ELSE "outside the specified ranges"

RowsOf(o) == SeqToSet(o.rows)

C3_DiscountBoundaries == out.op = "discount_impact" =>
    /\ \A t \in transactions : t.discount_amount >= 0 =>
           Cardinality({r \in RowsOf(out) : r.discount_category = ClaimedBucket(t.discount_amount)}) = 1
    /\ \A r \in RowsOf(out) : r.discount_category \in DiscountLabels
    /\ (\A t \in transactions : t.discount_amount >= 0) =>
           \A r \in RowsOf(out) : r.transaction_count =
               Cardinality({t \in transactions : ClaimedBucket(t.discount_amount) = r.discount_category})

C3_Witness == /\ out.op = "discount_impact"
              /\ \E t \in transactions : t.discount_amount = 1000
              /\ \E t \in transactions : t.discount_amount = 1001
              /\ \E r \in RowsOf(out) : r.discount_category = "Low Discount (<=$10)" /\ r.transaction_count = 1
              /\ \E r \in RowsOf(out) : r.discount_category = "Medium Discount ($11-$25)" /\ r.transaction_count = 1

(***************************************************************************)
(* C4: no returned bucket row has transaction count 0, the counts of the   *)
(* returned rows sum to the number of transactions, and one transaction    *)
(* with discount 0 gives exactly one row, "No Discount" with count 1.      *)
(***************************************************************************)
C4_NoEmptyBucket == out.op = "discount_impact" =>
    /\ \A i \in 1..Len(out.rows) : out.rows[i].transaction_count > 0
    /\ SumFn([r \in RowsOf(out) |-> r.transaction_count], RowsOf(out)) = Cardinality(transactions)
    /\ Len(out.rows) = Cardinality(RowsOf(out))
    /\ (Cardinality(transactions) = 1 /\ (\A t \in transactions : t.discount_amount = 0)) =>
           /\ Len(out.rows) = 1
           /\ out.rows[1].discount_category = "No Discount"
           /\ out.rows[1].transaction_count = 1

C4_Witness == /\ out.op = "discount_impact"
              /\ Cardinality(transactions) = 1
              /\ \A t \in transactions : t.discount_amount = 0
              /\ Len(out.rows) = 1

(***************************************************************************)
(* Inputs and specification of the sales-performance reports.              *)
(***************************************************************************)
TrendDates == {Date(2023, 5, 31), Date(2023, 6, 1), Date(2023, 12, 15), Date(2024, 1, 15)}

TrendTxRows == {Transaction(id, 1, 1, date, 1, 1000, total, 0, "Cash", "Online") :
                    id \in TxIds, date \in TrendDates, total \in {0, 1000, 1500}}

NextTrend == \/ \E t \in TrendTxRows : InsertTransaction(t)
             \/ RunMonthlyTrend
             \/ RunMonthlyGrowth

SpecTrend == Init /\ [][NextTrend]_vars

TotalsTxRows == {Transaction(id, c, 1, Date(2023, 5, 1), quantity, 1000, total, 500, "Cash", "Online") :
                     id \in TxIds, c \in 1..MaxCust, quantity \in {1, 2}, total \in {500, 2000}}

NextTotals == \/ \E t \in TotalsTxRows : InsertTransaction(t)
              \/ RunTotalMetrics

SpecTotals == Init /\ [][NextTotals]_vars

(***************************************************************************)
(* C1: for a non-empty transactions table the reported total revenue is    *)
(* the sum of the stored total_amount of every transaction, also when a    *)
(* stored total_amount is not quantity * unit_price - discount_amount.     *)
(***************************************************************************)
RECURSIVE StoredAmountUpTo(_)
StoredAmountUpTo(id) == IF id = 0 THEN 0
                        ELSE StoredAmountUpTo(id - 1) +
                             (IF \E t \in transactions : t.transaction_id = id
                                 THEN (CHOOSE t \in transactions : t.transaction_id = id).total_amount
                                 ELSE 0)

Inconsistent(t) == t.total_amount # t.quantity * t.unit_price - t.discount_amount

C1_RevenueIsStoredSum == (out.op = "total_metrics" /\ transactions # {}) =>
    /\ Len(out.rows) = 1
    /\ out.rows[1].total_revenue = StoredAmountUpTo(MaxTx)

C1_Witness == /\ out.op = "total_metrics"
              /\ Cardinality(transactions) >= 2
              /\ \E t \in transactions : Inconsistent(t)
              /\ out.rows[1].total_revenue # SUM_recomputed_amount(transactions)

(***************************************************************************)
(* C8: the monthly trend has exactly one row for each calendar month in    *)
(* which a transaction exists, none for another month, and the rows are    *)
(* in strictly ascending month order.                                      *)
(***************************************************************************)
MonthOf(t) == <<t.transaction_date.y, t.transaction_date.m>>

YearMonthLess(a, b) == a[1] * 12 + a[2] < b[1] * 12 + b[2]

C8_OneRowPerMonthAscending == out.op = "monthly_trend" =>
    /\ {out.rows[i].month : i \in 1..Len(out.rows)} = {MonthOf(t) : t \in transactions}
    /\ Len(out.rows) = Cardinality({MonthOf(t) : t \in transactions})
    /\ \A i \in 1..Len(out.rows) : \A j \in 1..Len(out.rows) :
           i < j => YearMonthLess(out.rows[i].month, out.rows[j].month)

C8_Witness == /\ out.op = "monthly_trend"
              /\ Len(out.rows) = 2
              /\ Cardinality(transactions) = 3
              /\ out.rows[1].month = <<2023, 6>>
              /\ out.rows[2].month = <<2024, 1>>

(***************************************************************************)
(* C9: the first row of the monthly trend has no growth rate; every later  *)
(* row whose preceding row has a non-zero revenue has the growth rate      *)
(* (revenue - preceding revenue) / preceding revenue * 100 to the nearest  *)
(* tenth, the preceding row being the previous row of the sequence.        *)
(***************************************************************************)
NearestTenth(tenths, n, d) == 2 * Abs(tenths * d - 10 * n) <= Abs(d)

C9_GrowthOverPrecedingRow == out.op = "monthly_growth" =>
    /\ Len(out.rows) >= 1 => out.rows[1].growth_rate.kind = "null"
    /\ \A i \in 2..Len(out.rows) : out.rows[i - 1].total_revenue # 0 =>
           /\ out.rows[i].growth_rate.kind = "number"
           /\ NearestTenth(out.rows[i].growth_rate.tenths,
                           (out.rows[i].total_revenue - out.rows[i - 1].total_revenue) * 100,
                           out.rows[i - 1].total_revenue)

C9_Witness == /\ out.op = "monthly_growth"
              /\ Len(out.rows) = 3
              /\ out.rows[1].month = <<2023, 5>>
              /\ out.rows[2].month = <<2023, 12>>
              /\ out.rows[1].total_revenue = 1500
              /\ out.rows[2].total_revenue = 1000
              /\ out.rows[2].growth_rate = Ratio("number", -333)
              /\ out.rows[3].growth_rate = Ratio("number", 500)

(***************************************************************************)
(* C10: with no transactions the total metrics are one row with revenue 0, *)
(* transaction count 0, average order value 0 and distinct customers 0.    *)
(***************************************************************************)
C10_EmptyTotalsAreZero == (out.op = "total_metrics" /\ transactions = {}) =>
    /\ out.status = "ok"
    /\ Len(out.rows) = 1
    /\ out.rows[1].total_revenue = 0
    /\ out.rows[1].total_transactions = 0
    /\ out.rows[1].avg_order_value = Num(0)
    /\ out.rows[1].unique_customers = 0

C10_Witness == out.op = "total_metrics" /\ transactions = {} /\ out.rows[1].total_transactions = 0

(***************************************************************************)
(* Inputs and specification of the reports that join the tables.  The      *)
(* foreign keys of transactions are not enforced (SQLite's default, and    *)
(* the schema-only script declares none): a transaction may name a         *)
(* customer or a product that has no row.                                  *)
(***************************************************************************)
JoinCustomers == {Customer(1, "Premium", "NY"), Customer(2, "Standard", "CA")}

JoinProducts == {Product(1, "Wireless Headphones", "Electronics", "TechBrand", 19999, 12000),
                 Product(2, "Desk Lamp", "Home", "LightCo", 2999, 1500)}

JoinProfiles == {[date |-> Date(2023, 5, 1), payment |-> "Cash", channel |-> "Online"],
                 [date |-> Date(2023, 6, 1), payment |-> "PayPal", channel |-> "In-Store"]}

JoinTxRows == {Transaction(id, c, p, f.date, 1, 1000, 1000, 0, f.payment, f.channel) :
                   id \in 1..MaxJoinTx, c \in {1, 2}, p \in {1, 2}, f \in JoinProfiles}

NextJoin == \/ \E c \in JoinCustomers : InsertCustomer(c)
            \/ \E p \in JoinProducts : InsertProduct(p)
            \/ \E t \in JoinTxRows : InsertTransaction(t)
            \/ RunCategoryPerformance
            \/ RunChannelPerformance
            \/ RunPaymentAnalysis
            \/ RunMonthlyTrend
            \/ RunCustomerSegmentation
            \/ RunGeographicDistribution

SpecJoin == Init /\ [][NextJoin]_vars

(***************************************************************************)
(* C2: a transaction whose product_id has no product row is in no row of   *)
(* the category report, and a transaction whose customer_id has no         *)
(* customer row is in no row of the segment and geographic reports; the    *)
(* channel, payment and monthly reports count every transaction.           *)
(***************************************************************************)
HasProduct(t) == \E p \in products : p.product_id = t.product_id

HasCustomer(t) == \E c \in customers : c.customer_id = t.customer_id

CategoryOf(t) == (CHOOSE p \in products : p.product_id = t.product_id).category

SegmentOf(t) == (CHOOSE c \in customers : c.customer_id = t.customer_id).customer_segment

StateOf(t) == (CHOOSE c \in customers : c.customer_id = t.customer_id).state

Revenue(S) == SumFn([t \in S |-> t.total_amount], S)

C2_DanglingReferences ==
    /\ out.op = "category_performance" =>
          /\ {r.category : r \in RowsOf(out)} = {CategoryOf(t) : t \in {x \in transactions : HasProduct(x)}}
          /\ \A r \in RowsOf(out) :
                LET G == {t \in transactions : HasProduct(t) /\ CategoryOf(t) = r.category}
                IN  /\ r.total_sales = Cardinality(G)
                    /\ r.total_revenue = Revenue(G)
                    /\ r.total_quantity_sold = SumFn([t \in G |-> t.quantity], G)
    /\ out.op = "geographic_distribution" =>
          /\ {r.state : r \in RowsOf(out)} = {StateOf(t) : t \in {x \in transactions : HasCustomer(x)}}
          /\ \A r \in RowsOf(out) :
                LET G == {t \in transactions : HasCustomer(t) /\ StateOf(t) = r.state}
                IN  r.total_transactions = Cardinality(G) /\ r.total_revenue = Revenue(G)
    /\ out.op = "customer_segmentation" =>
          \A r \in RowsOf(out) :
              LET G == {t \in transactions : HasCustomer(t) /\ SegmentOf(t) = r.customer_segment}
              IN  QEq(r.avg_transactions_per_customer, Q(Cardinality(G), r.customer_count))
    /\ out.op = "channel_performance" =>
          \A k \in {t.sales_channel : t \in transactions} :
              \E r \in RowsOf(out) : /\ r.sales_channel = k
                                     /\ r.total_transactions = Cardinality({t \in transactions : t.sales_channel = k})
                                     /\ r.total_revenue = Revenue({t \in transactions : t.sales_channel = k})
    /\ out.op = "payment_analysis" =>
          \A k \in {t.payment_method : t \in transactions} :
              \E r \in RowsOf(out) : /\ r.payment_method = k
                                     /\ r.transaction_count = Cardinality({t \in transactions : t.payment_method = k})
                                     /\ r.total_amount = Revenue({t \in transactions : t.payment_method = k})
    /\ out.op = "monthly_trend" =>
          \A k \in {MonthOf(t) : t \in transactions} :
              \E r \in RowsOf(out) : /\ r.month = k
                                     /\ r.total_transactions = Cardinality({t \in transactions : MonthOf(t) = k})
                                     /\ r.total_revenue = Revenue({t \in transactions : MonthOf(t) = k})

C2_Witness == /\ out.op = "category_performance"
              /\ \E t \in transactions : ~HasProduct(t)
              /\ \E t \in transactions : HasProduct(t)
              /\ Len(out.rows) = 1
              /\ out.rows[1].total_sales = 1

C2_WitnessChannel == /\ out.op = "channel_performance"
                     /\ \E t \in transactions : ~HasProduct(t) /\ ~HasCustomer(t)
                     /\ Len(out.rows) = 1
                     /\ out.rows[1].total_transactions = 2

(***************************************************************************)
(* Inputs and specification of the top-customer and top-product reports.   *)
(***************************************************************************)
TopTxRows == {Transaction(id, c, p, Date(2023, 5, 1), 1, 1000, total, 0, "Cash", "Online") :
                  id \in 1..MaxJoinTx, c \in {1, 2}, p \in {1, 2}, total \in {1000, 2000}}

NextTop == \/ \E c \in JoinCustomers : InsertCustomer(c)
           \/ \E p \in JoinProducts : InsertProduct(p)
           \/ \E t \in TopTxRows : InsertTransaction(t)
           \/ RunTopCustomers
           \/ RunTopProducts

SpecTop == Init /\ [][NextTop]_vars

(***************************************************************************)
(* C5: the top customers (products) are at most n rows in descending       *)
(* order of total revenue, and of two entities with equal total revenue    *)
(* the one with the lower identifier comes first.                          *)
(***************************************************************************)
ProductIdOf(name) == (CHOOSE p \in products : p.product_name = name).product_id

C5_TiesByAscendingId ==
    /\ out.op = "top_customers" =>
          /\ Len(out.rows) <= TopLimit
          /\ \A i \in 1..Len(out.rows) : \A j \in 1..Len(out.rows) : i < j =>
                \/ out.rows[i].total_spent > out.rows[j].total_spent
                \/ /\ out.rows[i].total_spent = out.rows[j].total_spent
                   /\ out.rows[i].customer_id < out.rows[j].customer_id
    /\ out.op = "top_products" =>
          /\ Len(out.rows) <= TopLimit
          /\ \A i \in 1..Len(out.rows) : \A j \in 1..Len(out.rows) : i < j =>
                \/ out.rows[i].total_revenue > out.rows[j].total_revenue
                \/ /\ out.rows[i].total_revenue = out.rows[j].total_revenue
                   /\ ProductIdOf(out.rows[i].product_name) < ProductIdOf(out.rows[j].product_name)

(***************************************************************************)
(* Inputs and specification of the customer segmentation report.           *)
(***************************************************************************)
SegmentCustomers == {Customer(id, segment, "NY") : id \in 1..MaxCust, segment \in {"Premium", "Basic", NULL, "Gold"}}

SegmentTxRows == {Transaction(id, c, 1, Date(2023, 5, 1), 1, 1000, total, 0, "Cash", "Online") :
                      id \in 1..MaxJoinTx, c \in 1..MaxCust, total \in {1000, 2000}}

NextSegment == \/ \E c \in SegmentCustomers : InsertCustomer(c)
               \/ \E t \in SegmentTxRows : InsertTransaction(t)
               \/ RunCustomerSegmentation

SpecSegment == Init /\ [][NextSegment]_vars

(***************************************************************************)
(* C6: the segmentation has at most 3 rows, every returned segment has a   *)
(* customer with at least one transaction, and customers without           *)
(* transactions are not counted in a segment's customer count.             *)
(***************************************************************************)
Transacting(c) == \E t \in transactions : t.customer_id = c.customer_id

C6_OnlyTransactingCustomers == out.op = "customer_segmentation" =>
    /\ Len(out.rows) <= 3
    /\ \A r \in RowsOf(out) :
          /\ \E c \in customers : c.customer_segment = r.customer_segment /\ Transacting(c)
          /\ r.customer_count = Cardinality({c \in customers : c.customer_segment = r.customer_segment /\ Transacting(c)})

(***************************************************************************)
(* Custom query interface.  A query is the sequence of its characters.     *)
(***************************************************************************)
LowerCase == <<"a", "b", "c", "d", "e", "f", "g", "h", "i", "j", "k", "l", "m",
               "n", "o", "p", "q", "r", "s", "t", "u", "v", "w", "x", "y", "z">>

UpperCase == <<"A", "B", "C", "D", "E", "F", "G", "H", "I", "J", "K", "L", "M",
               "N", "O", "P", "Q", "R", "S", "T", "U", "V", "W", "X", "Y", "Z">>

upper(query) == [i \in 1..Len(query) |->
                    IF \E k \in 1..Len(LowerCase) : LowerCase[k] = query[i]
                       THEN UpperCase[CHOOSE k \in 1..Len(LowerCase) : LowerCase[k] = query[i]]
                       ELSE query[i]]

Contains(text, keyword) == \E i \in 1..(Len(text) - Len(keyword) + 1) :
                              SubSeq(text, i, i + Len(keyword) - 1) = keyword

KW_DROP == <<"D", "R", "O", "P">>

KW_DELETE == <<"D", "E", "L", "E", "T", "E">>

KW_UPDATE == <<"U", "P", "D", "A", "T", "E">>

KW_ALTER == <<"A", "L", "T", "E", "R">>

KW_CREATE == <<"C", "R", "E", "A", "T", "E">>

KW_INSERT == <<"I", "N", "S", "E", "R", "T">>

dangerous_keywords == {KW_DROP, KW_DELETE, KW_UPDATE, KW_ALTER, KW_CREATE}

(* SELECT * FROM products *)
SelectProducts ==
    <<"S", "E", "L", "E", "C", "T", " ", "*", " ", "F", "R", "O", "M", " ",
      "p", "r", "o", "d", "u", "c", "t", "s">>

(* select created_at from customers *)
SelectCreatedAt ==
    <<"s", "e", "l", "e", "c", "t", " ", "c", "r", "e", "a", "t", "e", "d",
      "_", "a", "t", " ", "f", "r", "o", "m", " ", "c", "u", "s", "t", "o",
      "m", "e", "r", "s">>

(* DROP TABLE transactions *)
DropTransactions ==
    <<"D", "R", "O", "P", " ", "T", "A", "B", "L", "E", " ", "t", "r", "a",
      "n", "s", "a", "c", "t", "i", "o", "n", "s">>

(* delete from transactions *)
DeleteTransactions ==
    <<"d", "e", "l", "e", "t", "e", " ", "f", "r", "o", "m", " ", "t", "r",
      "a", "n", "s", "a", "c", "t", "i", "o", "n", "s">>

(* Update products set price = 0 *)
UpdatePrices ==
    <<"U", "p", "d", "a", "t", "e", " ", "p", "r", "o", "d", "u", "c", "t",
      "s", " ", "s", "e", "t", " ", "p", "r", "i", "c", "e", " ", "=", " ",
      "0">>

(* alter table customers add note *)
AlterCustomers ==
    <<"a", "l", "t", "e", "r", " ", "t", "a", "b", "l", "e", " ", "c", "u",
      "s", "t", "o", "m", "e", "r", "s", " ", "a", "d", "d", " ", "n", "o",
      "t", "e">>

(* Create index i on products(brand) *)
CreateIndex ==
    <<"C", "r", "e", "a", "t", "e", " ", "i", "n", "d", "e", "x", " ", "i",
      " ", "o", "n", " ", "p", "r", "o", "d", "u", "c", "t", "s", "(", "b",
      "r", "a", "n", "d", ")">>

(* INSERT INTO products (product_id, product_name, category, brand, price,
   cost) VALUES (2, 'Desk Lamp', 'Home', 'LightCo', 29.99, 15.00) *)
InsertLamp ==
    <<"I", "N", "S", "E", "R", "T", " ", "I", "N", "T", "O", " ", "p", "r",
      "o", "d", "u", "c", "t", "s", " ", "(", "p", "r", "o", "d", "u", "c",
      "t", "_", "i", "d", ",", " ", "p", "r", "o", "d", "u", "c", "t", "_",
      "n", "a", "m", "e", ",", " ", "c", "a", "t", "e", "g", "o", "r", "y",
      ",", " ", "b", "r", "a", "n", "d", ",", " ", "p", "r", "i", "c", "e",
      ",", " ", "c", "o", "s", "t", ")", " ", "V", "A", "L", "U", "E", "S",
      " ", "(", "2", ",", " ", "'", "D", "e", "s", "k", " ", "L", "a", "m",
      "p", "'", ",", " ", "'", "H", "o", "m", "e", "'", ",", " ", "'", "L",
      "i", "g", "h", "t", "C", "o", "'", ",", " ", "2", "9", ".", "9", "9",
      ",", " ", "1", "5", ".", "0", "0", ")">>

Queries == {SelectProducts,
            SelectCreatedAt,
            DropTransactions,
            DeleteTransactions,
            UpdatePrices,
            AlterCustomers,
            CreateIndex,
            InsertLamp}

Lamp == Product(2, "Desk Lamp", "Home", "LightCo", 2999, 1500)

SortedProducts == OrderBy(products, {pr \in products \X products : pr[1].product_id < pr[2].product_id})

(***************************************************************************)
(* get_data_from_query: what the database does with a statement that       *)
(* passed validation.  A row-changing statement is executed before the     *)
(* result set is fetched; whether its change is kept depends on the        *)
(* connection, so both outcomes are possible.  Schema statements change    *)
(* no row of the three tables, except DROP TABLE, which removes them.      *)
(***************************************************************************)
get_data_from_query(query) ==
    CASE query = SelectProducts ->
            /\ \E rows \in SortedProducts : out' = Output("custom_query", "ok", query, rows)
            /\ UNCHANGED <<customers, products, transactions, calls, ui, schema, sales_summary>>
      [] query = SelectCreatedAt ->
            /\ out' = Output("custom_query", "ok", query, <<>>)
            /\ UNCHANGED <<customers, products, transactions, calls, ui, schema, sales_summary>>
      [] query = InsertLamp ->
            /\ out' = Output("custom_query", "executed", query, <<>>)
            /\ \/ products' = products
               \/ /\ Lamp.product_id \notin {x.product_id : x \in products}
                  /\ products' = products \cup {Lamp}
            /\ UNCHANGED <<customers, transactions, calls, ui, schema, sales_summary>>
      [] query = DeleteTransactions \/ query = DropTransactions ->
            /\ out' = Output("custom_query", "executed", query, <<>>)
            /\ transactions' \in {transactions, {}}
            /\ UNCHANGED <<customers, products, calls, ui, schema, sales_summary>>
      [] query = UpdatePrices ->
            /\ out' = Output("custom_query", "executed", query, <<>>)
            /\ products' \in {products, {[p EXCEPT !.price = 0] : p \in products}}
            /\ UNCHANGED <<customers, transactions, calls, ui, schema, sales_summary>>
      [] OTHER ->
            /\ out' = Output("custom_query", "executed", query, <<>>)
            /\ UNCHANGED <<customers, products, transactions, calls, ui, schema, sales_summary>>

validate_upper(query) == LET text == upper(query)
                         IN  \E keyword \in dangerous_keywords : Contains(text, keyword)

CustomQuery(query) ==
    IF validate_upper(query)
       THEN /\ out' = Output("custom_query", "rejected", query, <<>>)
            /\ UNCHANGED <<customers, products, transactions, calls, ui, schema, sales_summary>>
       ELSE get_data_from_query(query)

(***************************************************************************)
(* The whole machine: loading rows, every report, and the custom query.    *)
(***************************************************************************)
Next == \/ \E c \in JoinCustomers : InsertCustomer(c)
        \/ \E p \in JoinProducts : InsertProduct(p)
        \/ \E t \in JoinTxRows : InsertTransaction(t)
        \/ RunTotalMetrics
        \/ RunMonthlyTrend
        \/ RunMonthlyGrowth
        \/ RunCategoryPerformance
        \/ RunChannelPerformance
        \/ RunPaymentAnalysis
        \/ RunDiscountImpact
        \/ RunCustomerSegmentation
        \/ RunGeographicDistribution
        \/ RunTopCustomers
        \/ RunTopProducts
        \/ \E query \in Queries : CustomQuery(query)

Spec == Init /\ [][Next]_vars

(***************************************************************************)
(* C7: a custom query containing DROP, DELETE, UPDATE, ALTER, CREATE or    *)
(* INSERT in any letter case is rejected before anything is executed, and  *)
(* a rejected query leaves customers, products and transactions unchanged. *)
(***************************************************************************)
MutatingKeywords == {KW_DROP, KW_DELETE, KW_UPDATE, KW_ALTER, KW_CREATE, KW_INSERT}

Mutating(query) == LET text == upper(query)
                   IN  \E keyword \in MutatingKeywords : Contains(text, keyword)

C7_MutatingQueriesRejected ==
    [][out'.op = "custom_query" =>
          /\ Mutating(out'.arg) => out'.status = "rejected"
          /\ out'.status = "rejected" => UNCHANGED <<customers, products, transactions>>]_vars

(***************************************************************************)
(* Ratios computed by the dashboard components.  A JavaScript division by  *)
(* zero does not raise: 0 / 0 is NaN and x / 0 is an infinity.             *)
(***************************************************************************)
MaxValue == 5

MaxSeriesLen == 3

Float(kind, value) == [kind |-> kind, value |-> value]

JSDiv(n, d) == IF d = 0
                  THEN (IF n = 0 THEN Float("NaN", NullNum)
                        ELSE IF n > 0 THEN Float("Infinity", NullNum) ELSE Float("-Infinity", NullNum))
                  ELSE Float("number", Q(n, d))

(***************************************************************************)
(* MetricsComparison.getChangePercentage:                                  *)
(* Math.abs(((current - previous) / previous) * 100).toFixed(1).           *)
(***************************************************************************)
getChangePercentage(current, previous) ==
    IF previous = 0
       THEN (IF current = 0 THEN Ratio("NaN", 0) ELSE Ratio("Infinity", 0))
       ELSE Ratio("number", Abs(toFixed1((current - previous) * 100, previous)))

RenderMetricsComparison(current, previous) ==
    /\ out' = Output("change_percentage", "ok", <<current, previous>>, <<getChangePercentage(current, previous)>>)
    /\ UNCHANGED <<customers, products, transactions, calls, ui, schema, sales_summary>>

RenderUserGrowth(latest, previous) ==
    /\ out' = Output("growth_rate", "ok", <<latest, previous>>, <<growthRate(latest, previous)>>)
    /\ UNCHANGED <<customers, products, transactions, calls, ui, schema, sales_summary>>

(***************************************************************************)
(* TimeSeriesChart: the points of the line chart are scaled by             *)
(* maxValue - minValue, the bars of the bar chart by maxValue.             *)
(***************************************************************************)
maxValue(series) == CHOOSE v \in SeqToSet(series) : \A w \in SeqToSet(series) : w <= v

minValue(series) == CHOOSE v \in SeqToSet(series) : \A w \in SeqToSet(series) : v <= w

LinePoint(series, index) ==
    LET range == maxValue(series) - minValue(series)
        scaled == JSDiv(series[index] - minValue(series), range)
    IN  [x |-> JSDiv((index - 1) * 800, Len(series) - 1),
         y |-> IF scaled.kind = "number"
                  THEN Float("number", Q(180 * range - 160 * (series[index] - minValue(series)), range))
                  ELSE Float("NaN", NullNum)]

BarWidth(series, index) == JSDiv(series[index] * 100, maxValue(series))

RenderTimeSeriesLine(series) ==
    /\ out' = Output("time_series_line", "ok", series, [i \in 1..Len(series) |-> LinePoint(series, i)])
    /\ UNCHANGED <<customers, products, transactions, calls, ui, schema, sales_summary>>

RenderTimeSeriesBars(series) ==
    /\ out' = Output("time_series_bars", "ok", series, [i \in 1..Len(series) |-> BarWidth(series, i)])
    /\ UNCHANGED <<customers, products, transactions, calls, ui, schema, sales_summary>>

RatioValues == 0..MaxValue

SeriesInputs == UNION {[1..n -> RatioValues] : n \in 1..MaxSeriesLen}

NextRatio == \/ \E current \in RatioValues, previous \in RatioValues : RenderMetricsComparison(current, previous)
             \/ \E latest \in RatioValues, previous \in RatioValues : RenderUserGrowth(latest, previous)
             \/ \E series \in SeriesInputs : RenderTimeSeriesLine(series)
             \/ \E series \in SeriesInputs : RenderTimeSeriesBars(series)

SpecRatio == Init /\ [][NextRatio]_vars

(***************************************************************************)
(* C11: every ratio the components compute is a number or the null         *)
(* sentinel, also when its denominator is zero: a change percentage or a   *)
(* growth rate over a zero previous value, a chart point of a series whose *)
(* maximum equals its minimum, and a bar of a series whose maximum is zero *)
(* are never NaN or infinite.                                              *)
(***************************************************************************)
Defined(r) == r.kind \in {"number", "null"}

C11_RatiosAreDefined ==
    /\ out.op \in {"change_percentage", "growth_rate", "time_series_bars"} =>
          \A i \in 1..Len(out.rows) : Defined(out.rows[i])
    /\ out.op = "time_series_line" =>
          \A i \in 1..Len(out.rows) : Defined(out.rows[i].x) /\ Defined(out.rows[i].y)

(***************************************************************************)
(* C12: a report run twice in a row on unchanged customers, products and   *)
(* transactions gives the same output both times: the same rows in the     *)
(* same order with the same values.                                        *)
(***************************************************************************)
ReportOps == {"total_metrics", "monthly_trend", "monthly_growth", "category_performance",
              "channel_performance", "payment_analysis", "discount_impact",
              "customer_segmentation", "geographic_distribution", "top_customers", "top_products"}

C12_ReportsAreIdempotent ==
    [][(/\ out.op \in ReportOps
        /\ out'.op = out.op
        /\ UNCHANGED <<customers, products, transactions>>) => out'.rows = out.rows]_vars

(***************************************************************************)
(* HeatMap and DataVisualization.renderMap: one tile per state with the    *)
(* state's figure, a colour by intensity = value / max, and a growth       *)
(* label Math.floor(Math.random() * 20 + 5).                               *)
(***************************************************************************)
MathRandomGrowth == 5..24

getIntensityColor(value, max) ==
    IF max = 0 THEN "bg-purple-200"
    ELSE IF 10 * value > 8 * max THEN "bg-purple-600"
    ELSE IF 10 * value > 6 * max THEN "bg-purple-500"
    ELSE IF 10 * value > 4 * max THEN "bg-purple-400"
    ELSE IF 10 * value > 2 * max THEN "bg-purple-300"
    ELSE "bg-purple-200"

maxTransactions(stateData) == maxValue([i \in 1..Len(stateData) |-> stateData[i].transactions])

HeatMapTile(stateData, i, growth) ==
    [state |-> stateData[i].state,
     millions |-> toFixed1(stateData[i].transactions, 1000000),
     color |-> getIntensityColor(stateData[i].transactions, maxTransactions(stateData)),
     growth |-> growth]

HeatMap(stateData) ==
    /\ \E growth \in [1..Len(stateData) -> MathRandomGrowth] :
          out' = Output("heat_map", "ok", stateData,
                        [i \in 1..Len(stateData) |-> HeatMapTile(stateData, i, growth[i])])
    /\ UNCHANGED <<customers, products, transactions, calls, ui, schema, sales_summary>>

(***************************************************************************)
(* formatNumber: tenths of crores, lakhs or thousands with the unit, or    *)
(* the number itself below 1000.                                           *)
(***************************************************************************)
formatNumber(num) ==
    IF num >= 10000000 THEN [tenths |-> toFixed1(num, 10000000), unit |-> "Cr"]
    ELSE IF num >= 100000 THEN [tenths |-> toFixed1(num, 100000), unit |-> "L"]
    ELSE IF num >= 1000 THEN [tenths |-> toFixed1(num, 1000), unit |-> "K"]
    ELSE [tenths |-> 10 * num, unit |-> ""]

renderMapTile(data, i, growth) ==
    [state |-> data[i].state,
     figure |-> formatNumber(data[i].transactions),
     color |-> getIntensityColor(data[i].transactions, maxTransactions(data)),
     growth |-> growth]

renderMap(data) ==
    /\ \E growth \in [1..Len(data) -> MathRandomGrowth] :
          out' = Output("render_map", "ok", data,
                        [i \in 1..Len(data) |-> renderMapTile(data, i, growth[i])])
    /\ UNCHANGED <<customers, products, transactions, calls, ui, schema, sales_summary>>

StateNames == <<"Maharashtra", "Karnataka", "Delhi", "Tamil Nadu">>

StateDataInputs == {<<0>>, <<4600000>>, <<15420000, 4600000>>}

stateDataOf(counts) == [i \in 1..Len(counts) |-> [state |-> StateNames[i], transactions |-> counts[i]]]

NextHeatMap == \/ \E counts \in StateDataInputs : HeatMap(stateDataOf(counts))
               \/ \E counts \in StateDataInputs : renderMap(stateDataOf(counts))

SpecHeatMap == Init /\ [][NextHeatMap]_vars

(***************************************************************************)
(* C13: every figure shown is a function of the input data: two            *)
(* renderings of the heat map (or of the map view) over the same state     *)
(* data show the same tiles, growth percentage included.                   *)
(***************************************************************************)
C13_FiguresDependOnInputOnly ==
    [][(/\ out.op \in {"heat_map", "render_map"}
        /\ out'.op = out.op
        /\ out'.arg = out.arg) => out'.rows = out.rows]_vars

(***************************************************************************)
(* Inputs and specification of all the reports together.                   *)
(***************************************************************************)
ReportTxRows == {Transaction(id, c, p, Date(2023, 5, 1), 1, 1000, 1000, 0, "Cash", "Online") :
                     id \in 1..MaxJoinTx, c \in {1, 2}, p \in {1, 2}}

NextReports == \/ \E c \in JoinCustomers : InsertCustomer(c)
               \/ \E p \in JoinProducts : InsertProduct(p)
               \/ \E t \in ReportTxRows : InsertTransaction(t)
               \/ RunTotalMetrics
               \/ RunMonthlyTrend
               \/ RunMonthlyGrowth
               \/ RunCategoryPerformance
               \/ RunChannelPerformance
               \/ RunPaymentAnalysis
               \/ RunDiscountImpact
               \/ RunCustomerSegmentation
               \/ RunGeographicDistribution
               \/ RunTopCustomers
               \/ RunTopProducts

SpecReports == Init /\ [][NextReports]_vars

(***************************************************************************)
(* C14: a report leaves customers, products and transactions as they       *)
(* were: no row is changed, added or deleted by running a report.          *)
(***************************************************************************)
C14_ReportsDoNotWrite ==
    [][out'.op \in ReportOps => UNCHANGED <<customers, products, transactions>>]_vars

C14_Witness == /\ out.op = "top_customers"
               /\ Len(out.rows) = 2
               /\ Cardinality(transactions) = 2
               /\ Cardinality(customers) = 2
               /\ products # {}

(***************************************************************************)
(* Inputs and specification of the channel and payment reports.            *)
(***************************************************************************)
ChannelTxRows == {Transaction(id, 1, 1, Date(2023, 5, 1), 1, 1000, 1000, 0, payment, channel) :
                      id \in TxIds, payment \in {"Cash", "PayPal"}, channel \in {"Online", "In-Store", NULL}}

NextChannel == \/ \E t \in ChannelTxRows : InsertTransaction(t)
               \/ RunChannelPerformance
               \/ RunPaymentAnalysis

SpecChannel == Init /\ [][NextChannel]_vars

(***************************************************************************)
(* C15: the channel (payment) report has exactly one row per channel       *)
(* (payment method) that occurs in transactions; the percentage of a row   *)
(* is its transaction count / the number of transactions * 100 to the      *)
(* nearest hundredth, and the counts of the rows add up to the number of   *)
(* transactions.                                                           *)
(***************************************************************************)
NearestHundredth(hundredths, n, d) == 2 * Abs(hundredths * d - 100 * 100 * n) <= d

SumOfRows(f, s) == SumFn([i \in 1..Len(s) |-> f[i]], 1..Len(s))

C15_ShareOfTransactions ==
    /\ out.op = "channel_performance" =>
          /\ Len(out.rows) = Cardinality({t.sales_channel : t \in transactions})
          /\ {r.sales_channel : r \in RowsOf(out)} = {t.sales_channel : t \in transactions}
          /\ \A r \in RowsOf(out) :
                /\ r.total_transactions = Cardinality({t \in transactions : t.sales_channel = r.sales_channel})
                /\ NearestHundredth(r.percentage_of_total, r.total_transactions, Cardinality(transactions))
          /\ SumOfRows([i \in 1..Len(out.rows) |-> out.rows[i].total_transactions], out.rows) = Cardinality(transactions)
    /\ out.op = "payment_analysis" =>
          /\ Len(out.rows) = Cardinality({t.payment_method : t \in transactions})
          /\ {r.payment_method : r \in RowsOf(out)} = {t.payment_method : t \in transactions}
          /\ \A r \in RowsOf(out) :
                /\ r.transaction_count = Cardinality({t \in transactions : t.payment_method = r.payment_method})
                /\ NearestHundredth(r.usage_percentage, r.transaction_count, Cardinality(transactions))
          /\ SumOfRows([i \in 1..Len(out.rows) |-> out.rows[i].transaction_count], out.rows) = Cardinality(transactions)

C15_Witness == /\ out.op = "channel_performance"
               /\ Cardinality(transactions) = 3
               /\ Len(out.rows) = 2
               /\ out.rows[1].total_transactions = 2
               /\ out.rows[1].percentage_of_total = 6667
               /\ out.rows[2].percentage_of_total = 3333

(***************************************************************************)
(* 8. Customer retention analysis: the months in which each customer       *)
(* bought, the number of such months per customer, and the customers per   *)
(* number of active months.                                                *)
(***************************************************************************)
customer_purchase_months ==
    {[customer_id |-> g[1],
      purchase_month |-> g[2],
      monthly_transactions |-> COUNT({t \in transactions : t.customer_id = g[1]
                                                           /\ strftime_Ym(t.transaction_date) = g[2]})] :
        g \in {<<t.customer_id, strftime_Ym(t.transaction_date)>> : t \in transactions}}

customer_activity_by_transactions ==
    {[customer_id |-> c,
      active_months |-> SumFn([r \in customer_purchase_months |-> r.monthly_transactions],
                              {r \in customer_purchase_months : r.customer_id = c})] :
        c \in {r.customer_id : r \in customer_purchase_months}}

customer_activity ==
    {[customer_id |-> c,
      active_months |-> Cardinality({r.purchase_month : r \in {x \in customer_purchase_months : x.customer_id = c}})] :
        c \in {r.customer_id : r \in customer_purchase_months}}

RetentionGroup(k) == {a \in customer_activity : a.active_months = k}

RetentionRow(k) == [active_months |-> k,
                    customer_count |-> COUNT(RetentionGroup(k)),
                    percentage |-> ROUND2_percent(COUNT(RetentionGroup(k)), COUNT_DISTINCT_customer_id(transactions))]

ByActiveMonths(S) == {p \in S \X S : p[1].active_months < p[2].active_months}

CustomerRetention == LET rows == {RetentionRow(k) : k \in {a.active_months : a \in customer_activity}}
                     IN  OrderBy(rows, ByActiveMonths(rows))

RunCustomerRetention == /\ \E rows \in CustomerRetention : out' = Output("customer_retention", "ok", <<>>, rows)
                        /\ UNCHANGED <<customers, products, transactions, calls, ui, schema, sales_summary>>

RetentionDates == {Date(2023, 5, 1), Date(2023, 5, 20), Date(2023, 6, 1)}

RetentionTxRows == {Transaction(id, c, 1, date, 1, 1000, 1000, 0, "Cash", "Online") :
                        id \in TxIds, c \in {1, 2, 3}, date \in RetentionDates}

NextRetention == \/ \E t \in RetentionTxRows : InsertTransaction(t)
                 \/ RunCustomerRetention

SpecRetention == Init /\ [][NextRetention]_vars

(***************************************************************************)
(* C16: the retention report groups the customers that have a transaction  *)
(* by the number of distinct calendar months in which they bought: the     *)
(* customer counts add up to the number of distinct transacting customers, *)
(* every row has at least one active month, and the percentage of a row is *)
(* its customer count / the number of distinct transacting customers * 100 *)
(* to the nearest hundredth.                                               *)
(***************************************************************************)
TransactingIds == {t.customer_id : t \in transactions}

ActiveMonthsOf(c) == Cardinality({MonthOf(t) : t \in {x \in transactions : x.customer_id = c}})

C16_RetentionCohorts == out.op = "customer_retention" =>
    /\ {r.active_months : r \in RowsOf(out)} = {ActiveMonthsOf(c) : c \in TransactingIds}
    /\ Len(out.rows) = Cardinality({ActiveMonthsOf(c) : c \in TransactingIds})
    /\ \A r \in RowsOf(out) :
          /\ r.active_months >= 1
          /\ r.customer_count = Cardinality({c \in TransactingIds : ActiveMonthsOf(c) = r.active_months})
          /\ NearestHundredth(r.percentage, r.customer_count, Cardinality(TransactingIds))
    /\ SumOfRows([i \in 1..Len(out.rows) |-> out.rows[i].customer_count], out.rows) = Cardinality(TransactingIds)

C16_Witness == /\ out.op = "customer_retention"
               /\ Cardinality(transactions) = 3
               /\ Cardinality(TransactingIds) = 2
               /\ Len(out.rows) = 2
               /\ out.rows[1] = [active_months |-> 1, customer_count |-> 1, percentage |-> 5000]
               /\ out.rows[2].active_months = 2

C16_WitnessSameMonth == /\ out.op = "customer_retention"
                        /\ Cardinality(transactions) = 3
                        /\ Cardinality(TransactingIds) = 3
                        /\ \E t \in transactions : t.transaction_date.d = 20
                        /\ out.rows = <<[active_months |-> 1, customer_count |-> 3, percentage |-> 10000]>>

(***************************************************************************)
(* C17: every row of the category report carries a profit, the sum of      *)
(* (price - cost) * quantity over the transactions whose product is of     *)
(* the category; the profit of a product row is the same sum over the      *)
(* product's transactions.  Amounts are in cents, so two decimals are      *)
(* exact.                                                                  *)
(***************************************************************************)
ProductOf(t) == CHOOSE p \in products : p.product_id = t.product_id

ProfitOf(S) == SumFn([t \in S |-> (ProductOf(t).price - ProductOf(t).cost) * t.quantity], S)

C17_ProfitPerCategory ==
    /\ out.op = "category_performance" =>
          \A r \in RowsOf(out) :
              /\ "total_profit" \in DOMAIN r
              /\ r.total_profit = ProfitOf({t \in transactions : HasProduct(t) /\ CategoryOf(t) = r.category})
    /\ out.op = "top_products" =>
          \A r \in RowsOf(out) :
              r.total_profit = ProfitOf({t \in transactions : HasProduct(t) /\ ProductOf(t).product_name = r.product_name})

(***************************************************************************)
(* Inputs and specification of the geographic report.                      *)
(***************************************************************************)
GeoCustomers == {Customer(id, "Premium", state) : id \in 1..MaxCust, state \in {"NY", "CA"}}

GeoTxRows == {Transaction(id, c, 1, Date(2023, 5, 1), 1, 1000, total, 0, "Cash", "Online") :
                  id \in 1..MaxJoinTx, c \in 1..(MaxCust + 1), total \in {1000, 2500}}

NextGeo == \/ \E c \in GeoCustomers : InsertCustomer(c)
           \/ \E t \in GeoTxRows : InsertTransaction(t)
           \/ RunGeographicDistribution

SpecGeo == Init /\ [][NextGeo]_vars

(***************************************************************************)
(* C18: the geographic report has exactly one row per state of the         *)
(* customers that have a transaction, with the number of distinct such     *)
(* customers, the number of their transactions and the sum of their        *)
(* amounts, in descending order of revenue.                                *)
(***************************************************************************)
C18_OneRowPerState == out.op = "geographic_distribution" =>
    /\ {r.state : r \in RowsOf(out)} = {c.state : c \in {x \in customers : Transacting(x)}}
    /\ Len(out.rows) = Cardinality({c.state : c \in {x \in customers : Transacting(x)}})
    /\ \A r \in RowsOf(out) :
          LET C == {c \in customers : c.state = r.state /\ Transacting(c)}
              G == {t \in transactions : \E c \in C : c.customer_id = t.customer_id}
          IN  /\ r.customer_count = Cardinality(C)
              /\ r.total_transactions = Cardinality(G)
              /\ r.total_revenue = Revenue(G)
    /\ \A i \in 1..Len(out.rows) : \A j \in 1..Len(out.rows) :
          i < j => out.rows[i].total_revenue >= out.rows[j].total_revenue

C18_Witness == /\ out.op = "geographic_distribution"
               /\ Len(out.rows) = 2
               /\ out.rows[1].total_revenue = 2500
               /\ out.rows[2].total_revenue = 1000

C18_WitnessSameState == /\ out.op = "geographic_distribution"
                        /\ Len(out.rows) = 1
                        /\ out.rows[1].customer_count = 2
                        /\ out.rows[1].total_transactions = 2

(***************************************************************************)
(* C19: every stored customer has one of the segments Premium, Standard    *)
(* and Basic: an INSERT of a customer with another segment, or with none,  *)
(* is rejected and stores no row.                                          *)
(***************************************************************************)
C19_SegmentIsEnumerated == \A c \in customers : c.customer_segment \in Segments

(***************************************************************************)
(* Reports invoked concurrently.  A caller invokes a report and the        *)
(* report completes later, other callers' invocations and completions      *)
(* coming in between; a completion runs the report's query over the        *)
(* tables as they are then.  The tables as they were at the invocation     *)
(* are kept with the call.                                                 *)
(***************************************************************************)
ConcurrentOps == {"total_metrics", "category_performance", "customer_segmentation", "top_customers"}

ReportResults(op) ==
    CASE op = "total_metrics" -> {<<TotalMetrics>>}
      [] op = "category_performance" -> CategoryPerformance
      [] op = "customer_segmentation" -> CustomerSegmentation
      [] op = "top_customers" -> TopCustomers

Snapshot == <<customers, products, transactions>>

Invoke(i, op) ==
    /\ calls[i].phase = "idle"
    /\ calls' = [calls EXCEPT ![i] = [phase |-> "running", op |-> op, snapshot |-> Snapshot]]
    /\ UNCHANGED <<customers, products, transactions, out, ui, schema, sales_summary>>

Complete_consuming(i) ==
    /\ calls[i].phase = "running"
    /\ \E rows \in ReportResults(calls[i].op) :
          calls' = [calls EXCEPT ![i] = [phase |-> "returned", op |-> calls[i].op,
                                         snapshot |-> calls[i].snapshot, rows |-> rows]]
    /\ transactions' = IF calls[i].op = "top_customers" THEN {} ELSE transactions
    /\ UNCHANGED <<customers, products, out, ui, schema, sales_summary>>

Complete(i) ==
    /\ calls[i].phase = "running"
    /\ \E rows \in ReportResults(calls[i].op) :
          calls' = [calls EXCEPT ![i] = [phase |-> "returned", op |-> calls[i].op,
                                         snapshot |-> calls[i].snapshot, rows |-> rows]]
    /\ UNCHANGED <<customers, products, transactions, out, ui, schema, sales_summary>>

NoCalls == \A i \in CallIds : calls[i].phase = "idle"

LoadCustomer(c) == NoCalls /\ InsertCustomer(c)

LoadProduct(p) == NoCalls /\ InsertProduct(p)

LoadTransaction(t) == NoCalls /\ InsertTransaction(t)

ConcurrentTxRows == {Transaction(id, c, 1, Date(2023, 5, 1), 1, 1000, 1000, 0, "Cash", "Online") :
                         id \in {1, 2}, c \in {1, 2}}

NextConcurrent == \/ \E c \in JoinCustomers : LoadCustomer(c)
                  \/ \E p \in JoinProducts : LoadProduct(p)
                  \/ \E t \in ConcurrentTxRows : LoadTransaction(t)
                  \/ \E i \in CallIds, op \in ConcurrentOps : Invoke(i, op)
                  \/ \E i \in CallIds : Complete(i)

SpecConcurrent == Init /\ [][NextConcurrent]_vars

(***************************************************************************)
(* C20: a report invoked while other reports are in flight returns what it *)
(* returns when run alone over the tables it was invoked on, whatever the  *)
(* interleaving: the tables are still those of its invocation, and its     *)
(* rows are rows the report gives over them.                               *)
(***************************************************************************)
C20_ConcurrentReportsAsAlone ==
    \A i \in CallIds : calls[i].phase = "returned" =>
        /\ calls[i].snapshot = Snapshot
        /\ calls[i].rows \in ReportResults(calls[i].op)

C20_Witness == /\ calls[1].phase = "returned"
               /\ calls[2].phase = "returned"
               /\ calls[1].op = "top_customers"
               /\ calls[2].op = "customer_segmentation"
               /\ Len(calls[1].rows) = 2
               /\ Len(calls[2].rows) = 2

C20_WitnessInFlight == /\ calls[1].phase = "returned"
                       /\ calls[2].phase = "running"
                       /\ calls[1].op = "top_customers"
                       /\ Len(calls[1].rows) = 1
                       /\ calls[2].op = "total_metrics"

(***************************************************************************)
(* The dashboard: App holds the four filters and selectedDataset,          *)
(* DatasetSelector holds a selectedDataset of its own, DataVisualization   *)
(* holds viewType and filterState (lastViewButton records the view button  *)
(* clicked last, none at first).  A state change re-renders the            *)
(* component that holds the state and the components below it; a render    *)
(* of HeatMap or of the map view draws the growth label of each tile anew  *)
(* with Math.random.  Setting a state to the value it has renders nothing. *)
(***************************************************************************)
periodOptions == {"last7days", "last30days", "last3months", "last6months", "lastyear", "all"}

stateOptions == {"all", "maharashtra", "karnataka", "delhi", "tamilnadu", "gujarat",
                 "uttarpradesh", "westbengal", "rajasthan", "haryana", "punjab"}

metricOptions == {"transactions", "amount", "users"}

chartTypeOptions == {"line", "bar"}

datasets == {"aggregate-transaction", "aggregate-user", "map-transaction", "map-user",
             "top-transaction-district", "top-transaction-pincode", "top-user-district", "top-user-pincode"}

ViewTypes == {"chart", "table", "map"}

filterStateOptions == {"all", "maharashtra", "karnataka", "delhi", "tamilnadu", "gujarat"}

(***************************************************************************)
(* The first tile of the heat map and the first row of each sample        *)
(* dataset: one random label per rendered row is what the renders differ  *)
(* in, and one row shows it.                                               *)
(***************************************************************************)
HeatMapTiles == <<"Maharashtra">>

sampleData == [d \in {"aggregate-transaction", "aggregate-user"} |->
                  IF d = "aggregate-transaction"
                     THEN <<[state |-> "Maharashtra", figure |-> 15420000]>>
                     ELSE <<[state |-> "Maharashtra", figure |-> 8500000]>>]

getCurrentData(selectedDataset) ==
    IF selectedDataset \in DOMAIN sampleData THEN sampleData[selectedDataset]
    ELSE sampleData["aggregate-transaction"]

RandomLabels(n) == [1..n -> MathRandomGrowth]

RenderedMapGrowth(viewType, selectedDataset) ==
    IF viewType = "map" THEN RandomLabels(Len(getCurrentData(selectedDataset))) ELSE {<<>>}

(***************************************************************************)
(* A render of App: HeatMap and DataVisualization are rendered again.      *)
(***************************************************************************)
RenderApp(next) ==
    \E heat \in RandomLabels(Len(HeatMapTiles)), map \in RenderedMapGrowth(next.viewType, next.selectedDataset) :
        ui' = [next EXCEPT !.mounted = TRUE, !.heatMapGrowth = heat, !.mapGrowth = map]

RenderDataVisualization(next) ==
    \E map \in RenderedMapGrowth(next.viewType, next.selectedDataset) :
        ui' = [next EXCEPT !.mapGrowth = map]

MountApp == /\ ~ui.mounted
            /\ RenderApp(ui)
            /\ UNCHANGED <<customers, products, transactions, out, calls, schema, sales_summary>>

onPeriodChange(period) ==
    /\ ui.mounted
    /\ IF period = ui.selectedPeriod THEN UNCHANGED ui
       ELSE RenderApp([ui EXCEPT !.selectedPeriod = period])
    /\ UNCHANGED <<customers, products, transactions, out, calls, schema, sales_summary>>

onStateChange(state) ==
    /\ ui.mounted
    /\ IF state = ui.selectedState THEN UNCHANGED ui
       ELSE RenderApp([ui EXCEPT !.selectedState = state])
    /\ UNCHANGED <<customers, products, transactions, out, calls, schema, sales_summary>>

onMetricChange(metric) ==
    /\ ui.mounted
    /\ IF metric = ui.selectedMetric THEN UNCHANGED ui
       ELSE RenderApp([ui EXCEPT !.selectedMetric = metric])
    /\ UNCHANGED <<customers, products, transactions, out, calls, schema, sales_summary>>

onChartTypeChange(type) ==
    /\ ui.mounted
    /\ IF type = ui.chartType THEN UNCHANGED ui
       ELSE RenderApp([ui EXCEPT !.chartType = type])
    /\ UNCHANGED <<customers, products, transactions, out, calls, schema, sales_summary>>

(***************************************************************************)
(* DatasetSelector: a click on a dataset card sets the selector's own      *)
(* selectedDataset; the component takes no props and calls no callback.    *)
(***************************************************************************)
ClickDataset(id) ==
    /\ ui.mounted
    /\ ui' = [ui EXCEPT !.selector_selectedDataset = id]
    /\ UNCHANGED <<customers, products, transactions, out, calls, schema, sales_summary>>

setViewType(viewType) ==
    /\ ui.mounted
    /\ IF viewType = ui.viewType THEN ui' = [ui EXCEPT !.lastViewButton = viewType]
       ELSE RenderDataVisualization([ui EXCEPT !.viewType = viewType, !.lastViewButton = viewType])
    /\ UNCHANGED <<customers, products, transactions, out, calls, schema, sales_summary>>

setFilterState_resetting(filterState) ==
    /\ ui.mounted
    /\ IF filterState = ui.filterState THEN UNCHANGED ui
       ELSE RenderDataVisualization([ui EXCEPT !.filterState = filterState, !.viewType = "chart"])
    /\ UNCHANGED <<customers, products, transactions, out, calls, schema, sales_summary>>

setFilterState(filterState) ==
    /\ ui.mounted
    /\ IF filterState = ui.filterState THEN UNCHANGED ui
       ELSE RenderDataVisualization([ui EXCEPT !.filterState = filterState])
    /\ UNCHANGED <<customers, products, transactions, out, calls, schema, sales_summary>>

(***************************************************************************)
(* What the components show.                                               *)
(***************************************************************************)
DataVisualizationProps == [selectedDataset |-> ui.selectedDataset]

TimeSeriesChartProps == [selectedMetric |-> ui.selectedMetric, chartType |-> ui.chartType]

ShownRenderers == {v \in ViewTypes : ui.viewType = v}

DisplayedRows == getCurrentData(DataVisualizationProps.selectedDataset)

NextVisualization == \/ MountApp
                     \/ \E id \in datasets : ClickDataset(id)
                     \/ \E v \in ViewTypes : setViewType(v)
                     \/ \E s \in filterStateOptions : setFilterState(s)

SpecVisualization == Init /\ [][NextVisualization]_vars

(***************************************************************************)
(* C21: the dataset that App passes to DataVisualization is the dataset    *)
(* selected last in DatasetSelector.                                       *)
(***************************************************************************)
C21_SelectionReachesVisualization ==
    ui.mounted => DataVisualizationProps.selectedDataset = ui.selector_selectedDataset

(***************************************************************************)
(* Running a schema script: the statements act on the catalog in order; a  *)
(* table that is dropped loses its rows.                                   *)
(***************************************************************************)
RowsAfter(rows, table, run) == IF table \in run.dropped THEN {} ELSE rows

RunSchemaScript(name) ==
    \E bail \in BOOLEAN :
        LET run == ExecScript(Scripts[name], schema, bail) IN
        /\ schema' = run.catalog
        /\ customers' = RowsAfter(customers, "customers", run)
        /\ products' = RowsAfter(products, "products", run)
        /\ transactions' = RowsAfter(transactions, "transactions", run)
        /\ sales_summary' = RowsAfter(sales_summary, "sales_summary", run)
        /\ out' = Output("schema", run.status, name, <<>>)
        /\ UNCHANGED <<calls, ui>>

NextSchema == \/ \E name \in DOMAIN Scripts : RunSchemaScript(name)
              \/ \E c \in JoinCustomers : HasTable(schema, "customers") /\ InsertCustomer(c)
              \/ \E p \in JoinProducts : HasTable(schema, "products") /\ InsertProduct(p)
              \/ \E t \in ConcurrentTxRows : HasTable(schema, "transactions") /\ InsertTransaction(t)

SpecSchema == Init /\ [][NextSchema]_vars

AlreadyRun(name) == schema = ExecScript(Scripts[name], {}, TRUE).catalog

(***************************************************************************)
(* C22: a schema script that runs on a database on which the same script   *)
(* has already run succeeds and leaves the same tables, indexes and views. *)
(***************************************************************************)
C22_SchemaScriptRunsAgain ==
    [][\A name \in DOMAIN Scripts :
          (AlreadyRun(name) /\ out'.op = "schema" /\ out'.arg = name)
              => (out'.status = "ok" /\ schema' = schema)]_vars

(***************************************************************************)
(* The sample data script: four INSERT statements, each of them all or     *)
(* nothing.  Amounts are in cents.  A sales_summary row gets the next      *)
(* summary_id, so the statement can run again.                             *)
(***************************************************************************)
MaxSummaryRows == 10

SampleCustomers ==
    {Customer(1, "Premium", "NY"), Customer(2, "Standard", "CA"), Customer(3, "Basic", "IL"),
     Customer(4, "Premium", "TX"), Customer(5, "Standard", "AZ"), Customer(6, "Basic", "PA"),
     Customer(7, "Premium", "TX"), Customer(8, "Standard", "CA"), Customer(9, "Basic", "TX"),
     Customer(10, "Premium", "CA")}

SampleProducts ==
    {Product(1, "Wireless Headphones", "Electronics", "TechBrand", 19999, 12000),
     Product(2, "Smartphone Case", "Electronics", "ProtectPro", 2999, 1500),
     Product(3, "Bluetooth Speaker", "Electronics", "SoundMax", 8999, 5500),
     Product(4, "Laptop Stand", "Electronics", "ErgoTech", 7999, 4500),
     Product(5, "USB-C Cable", "Electronics", "ConnectPlus", 1999, 800),
     Product(6, "Wireless Mouse", "Electronics", "ClickMaster", 4999, 2500),
     Product(7, "Keyboard", "Electronics", "TypePro", 12999, 7000),
     Product(8, "Monitor", "Electronics", "ViewMax", 29999, 18000),
     Product(9, "Webcam", "Electronics", "ClearView", 6999, 3500),
     Product(10, "Power Bank", "Electronics", "PowerPlus", 3999, 2000)}

SampleTransactions ==
    {Transaction(1, 1, 1, Date(2023, 5, 1), 1, 19999, 19999, 0, "Credit Card", "Online"),
     Transaction(2, 2, 2, Date(2023, 5, 2), 2, 2999, 5998, 500, "PayPal", "Online"),
     Transaction(3, 3, 3, Date(2023, 5, 3), 1, 8999, 8999, 0, "Debit Card", "In-Store"),
     Transaction(4, 1, 4, Date(2023, 5, 4), 1, 7999, 7999, 1000, "Credit Card", "Online"),
     Transaction(5, 4, 5, Date(2023, 5, 5), 3, 1999, 5997, 0, "Credit Card", "Mobile App"),
     Transaction(6, 5, 6, Date(2023, 5, 6), 1, 4999, 4999, 0, "Debit Card", "In-Store"),
     Transaction(7, 2, 7, Date(2023, 5, 7), 1, 12999, 12999, 1500, "PayPal", "Online"),
     Transaction(8, 6, 8, Date(2023, 5, 8), 1, 29999, 29999, 3000, "Credit Card", "Online"),
     Transaction(9, 7, 9, Date(2023, 5, 9), 1, 6999, 6999, 0, "Credit Card", "Mobile App"),
     Transaction(10, 3, 10, Date(2023, 5, 10), 2, 3999, 7998, 800, "Cash", "In-Store"),
     Transaction(11, 8, 1, Date(2023, 5, 11), 1, 19999, 19999, 2000, "Debit Card", "Online"),
     Transaction(12, 9, 2, Date(2023, 5, 12), 1, 2999, 2999, 0, "PayPal", "Mobile App"),
     Transaction(13, 10, 3, Date(2023, 5, 13), 1, 8999, 8999, 0, "Credit Card", "Online"),
     Transaction(14, 4, 6, Date(2023, 5, 14), 2, 4999, 9998, 1000, "Credit Card", "In-Store"),
     Transaction(15, 1, 8, Date(2023, 5, 15), 1, 29999, 29999, 0, "Credit Card", "Online")}

SalesSummary(summary_date, total_sales, total_transactions, unique_customers, average_order_value) ==
    [summary_date |-> summary_date, total_sales |-> total_sales,
     total_transactions |-> total_transactions, unique_customers |-> unique_customers,
     average_order_value |-> average_order_value]

SampleSalesSummary ==
    <<SalesSummary(Date(2023, 5, 1), 19999, 1, 1, 19999),
      SalesSummary(Date(2023, 5, 2), 5498, 1, 1, 5498),
      SalesSummary(Date(2023, 5, 3), 8999, 1, 1, 8999),
      SalesSummary(Date(2023, 5, 4), 6999, 1, 1, 6999),
      SalesSummary(Date(2023, 5, 5), 5997, 1, 1, 5997),
      SalesSummary(Date(2023, 5, 6), 4999, 1, 1, 4999),
      SalesSummary(Date(2023, 5, 7), 11499, 1, 1, 11499),
      SalesSummary(Date(2023, 5, 8), 26999, 1, 1, 26999),
      SalesSummary(Date(2023, 5, 9), 6999, 1, 1, 6999),
      SalesSummary(Date(2023, 5, 10), 7198, 1, 1, 7198)>>

InsertSampleCustomers ==
    /\ IF (\A c \in SampleCustomers : CustomerOk(c))
          /\ {c.customer_id : c \in SampleCustomers} \cap {c.customer_id : c \in customers} = {}
          THEN /\ customers' = customers \cup SampleCustomers
               /\ out' = Output("insert_customer", "ok", <<>>, <<>>)
          ELSE /\ customers' = customers
               /\ out' = Output("insert_customer", "rejected", <<>>, <<>>)
    /\ UNCHANGED <<products, transactions, calls, ui, schema, sales_summary>>

InsertSampleProducts ==
    /\ IF {p.product_id : p \in SampleProducts} \cap {p.product_id : p \in products} = {}
          THEN /\ products' = products \cup SampleProducts
               /\ out' = Output("insert_product", "ok", <<>>, <<>>)
          ELSE /\ products' = products
               /\ out' = Output("insert_product", "rejected", <<>>, <<>>)
    /\ UNCHANGED <<customers, transactions, calls, ui, schema, sales_summary>>

InsertSampleTransactions ==
    /\ IF (\A t \in SampleTransactions : TransactionOk(t))
          /\ {t.transaction_id : t \in SampleTransactions} \cap {t.transaction_id : t \in transactions} = {}
          THEN /\ transactions' = transactions \cup SampleTransactions
               /\ out' = Output("insert_transaction", "ok", <<>>, <<>>)
          ELSE /\ transactions' = transactions
               /\ out' = Output("insert_transaction", "rejected", <<>>, <<>>)
    /\ UNCHANGED <<customers, products, calls, ui, schema, sales_summary>>

InsertSampleSalesSummary ==
    /\ Cardinality(sales_summary) < MaxSummaryRows
    /\ sales_summary' = sales_summary \cup
           {[summary_id |-> Cardinality(sales_summary) + i, row |-> SampleSalesSummary[i]] :
               i \in 1..Len(SampleSalesSummary)}
    /\ out' = Output("insert_sales_summary", "ok", <<>>, <<>>)
    /\ UNCHANGED <<customers, products, transactions, calls, ui, schema>>

NextSample == \/ RunSchemaScript("schema")
              \/ InsertSampleCustomers
              \/ InsertSampleProducts
              \/ InsertSampleTransactions
              \/ InsertSampleSalesSummary
              \/ RunTotalMetrics
              \/ RunMonthlyTrend
              \/ RunChannelPerformance
              \/ RunPaymentAnalysis

SpecSample == Init /\ [][NextSample]_vars

TransactionsOn(date) == {t \in transactions : t.transaction_date = date}

(***************************************************************************)
(* C23: when the sample transactions are in, every sales_summary row       *)
(* agrees with the transactions of its date: total_sales is the sum of     *)
(* their total_amount, total_transactions their number, unique_customers   *)
(* the number of their customers, and average_order_value is total_sales / *)
(* total_transactions.                                                     *)
(***************************************************************************)
C23_SummaryAgreesWithTransactions ==
    SampleTransactions \subseteq transactions =>
        \A s \in sales_summary :
            LET sold == TransactionsOn(s.row.summary_date) IN
            /\ s.row.total_sales = SUM_total_amount(sold)
            /\ s.row.total_transactions = COUNT(sold)
            /\ s.row.unique_customers = COUNT_DISTINCT_customer_id(sold)
            /\ s.row.average_order_value * s.row.total_transactions = s.row.total_sales

ReadOnlySelects == {SelectProducts, SelectCreatedAt}

(***************************************************************************)
(* C24: the keyword check of the custom query never rejects a SELECT that  *)
(* modifies nothing, whatever columns and tables it names (created_at).    *)
(***************************************************************************)
C24_ReadOnlySelectAccepted ==
    [][(out'.op = "custom_query" /\ out'.arg \in ReadOnlySelects) => out'.status # "rejected"]_vars

(***************************************************************************)
(* Everything the dashboard shows that depends on the state: the props of  *)
(* TimeSeriesChart, the rows and the renderer of DataVisualization, and    *)
(* the growth labels of the heat map and of the map view.                  *)
(***************************************************************************)
Displayed == [timeSeries |-> TimeSeriesChartProps,
              rows |-> DisplayedRows,
              renderers |-> ShownRenderers,
              heatMapGrowth |-> ui.heatMapGrowth,
              mapGrowth |-> ui.mapGrowth]

NextFilters == \/ MountApp
               \/ \E period \in periodOptions : onPeriodChange(period)
               \/ \E state \in stateOptions : onStateChange(state)
               \/ \E metric \in metricOptions : onMetricChange(metric)
               \/ \E type \in chartTypeOptions : onChartTypeChange(type)

SpecFilters == Init /\ [][NextFilters]_vars

(***************************************************************************)
(* C25: a change of the period or of the state filter changes only         *)
(* selectedPeriod or selectedState; the other filters, the props of        *)
(* TimeSeriesChart and every displayed chart and figure stay as they are.  *)
(***************************************************************************)
C25_PeriodAndStateChangeNothingShown ==
    [][(ui.mounted /\ (ui'.selectedPeriod # ui.selectedPeriod \/ ui'.selectedState # ui.selectedState))
          => /\ ui'.selectedMetric = ui.selectedMetric
             /\ ui'.chartType = ui.chartType
             /\ ui'.selectedPeriod = ui.selectedPeriod \/ ui'.selectedState = ui.selectedState
             /\ Displayed' = Displayed]_vars

(***************************************************************************)
(* MetricsComparison: one card per metric, with the trend icon, the colour *)
(* of the change, its sign and its percentage.                             *)
(***************************************************************************)
MaxMetric == 10

getChangeIcon(current, previous) ==
    IF current > previous THEN "TrendingUp"
    ELSE IF current < previous THEN "TrendingDown"
    ELSE "Minus"

getChangeColor(current, previous) ==
    IF current > previous THEN "text-green-600"
    ELSE IF current < previous THEN "text-red-600"
    ELSE "text-gray-600"

getChangeSign(current, previous) ==
    IF current > previous THEN "+"
    ELSE IF current < previous THEN "-"
    ELSE ""

RenderMetricCard(current, previous) ==
    /\ out' = Output("metric_card", "ok", <<current, previous>>,
                     <<[icon |-> getChangeIcon(current, previous),
                        color |-> getChangeColor(current, previous),
                        sign |-> getChangeSign(current, previous),
                        percentage |-> getChangePercentage(current, previous)]>>)
    /\ UNCHANGED <<customers, products, transactions, calls, ui, schema, sales_summary>>

NextComparison == \E current \in 0..MaxMetric, previous \in 0..MaxMetric : RenderMetricCard(current, previous)

SpecComparison == Init /\ [][NextComparison]_vars

Trend(card) == <<card.icon, card.color, card.sign>>

(***************************************************************************)
(* C26: on a card of MetricsComparison the icon, the colour and the sign   *)
(* are up, green and '+' exactly when current > previous, down, red and    *)
(* '-' exactly when current < previous, and neutral, grey and no sign      *)
(* exactly when they are equal; the percentage shown is                    *)
(* |current - previous| / previous * 100 to one decimal.                   *)
(***************************************************************************)
C26_TrendAndPercentageAgree ==
    out.op = "metric_card" =>
        LET current == out.arg[1]
            previous == out.arg[2]
            card == out.rows[1]
        IN  /\ Trend(card) = <<"TrendingUp", "text-green-600", "+">> <=> current > previous
            /\ Trend(card) = <<"TrendingDown", "text-red-600", "-">> <=> current < previous
            /\ Trend(card) = <<"Minus", "text-gray-600", "">> <=> current = previous
            /\ card.percentage.kind = "number"
            /\ 2 * previous * card.percentage.tenths - previous
                  <= 2 * 1000 * Abs(current - previous)
            /\ 2 * 1000 * Abs(current - previous)
                  <= 2 * previous * card.percentage.tenths + previous

(***************************************************************************)
(* The part of C26 that does not divide: the trend always agrees, and the  *)
(* percentage is the rounded quotient whenever previous is not zero.       *)
(***************************************************************************)
C26_HoldsForNonZeroPrevious ==
    (out.op = "metric_card" /\ out.arg[2] # 0) => C26_TrendAndPercentageAgree

(***************************************************************************)
(* The copies of formatNumber and formatCurrency.  A formatted value is    *)
(* the currency sign or none, the tenths of the scaled value, and the unit *)
(* with or without a space before it.                                      *)
(***************************************************************************)
MaxOffset == 3

Formatted(currency, tenths, space, unit) ==
    [currency |-> currency, tenths |-> tenths, space |-> space, unit |-> unit]

formatCurrency(amount) ==
    IF amount >= 10000000 THEN Formatted(TRUE, toFixed1(amount, 10000000), FALSE, "Cr")
    ELSE IF amount >= 100000 THEN Formatted(TRUE, toFixed1(amount, 100000), FALSE, "L")
    ELSE IF amount >= 1000 THEN Formatted(TRUE, toFixed1(amount, 1000), FALSE, "K")
    ELSE Formatted(TRUE, 10 * amount, FALSE, "")

mockData_formatCurrency(amount) ==
    IF amount >= 10000000 THEN Formatted(TRUE, toFixed1(amount, 10000000), TRUE, "Cr")
    ELSE IF amount >= 100000 THEN Formatted(TRUE, toFixed1(amount, 100000), TRUE, "L")
    ELSE IF amount >= 1000 THEN Formatted(TRUE, toFixed1(amount, 1000), TRUE, "K")
    ELSE Formatted(TRUE, 10 * amount, FALSE, "")

mockData_formatNumber(num) ==
    IF num >= 10000000 THEN Formatted(FALSE, toFixed1(num, 10000000), TRUE, "Cr")
    ELSE IF num >= 100000 THEN Formatted(FALSE, toFixed1(num, 100000), TRUE, "L")
    ELSE IF num >= 1000 THEN Formatted(FALSE, toFixed1(num, 1000), TRUE, "K")
    ELSE Formatted(FALSE, 10 * num, FALSE, "")

formatValue_strict(value, format) ==
    CASE format = "currency" ->
            IF value > 10000000 THEN Formatted(TRUE, toFixed1(value, 10000000), TRUE, "Cr")
            ELSE IF value > 100000 THEN Formatted(TRUE, toFixed1(value, 100000), TRUE, "L")
            ELSE IF value > 1000 THEN Formatted(TRUE, toFixed1(value, 1000), TRUE, "K")
            ELSE Formatted(TRUE, 10 * value, FALSE, "")
      [] format = "number" ->
            IF value > 10000000 THEN Formatted(FALSE, toFixed1(value, 10000000), TRUE, "Cr")
            ELSE IF value > 100000 THEN Formatted(FALSE, toFixed1(value, 100000), TRUE, "L")
            ELSE IF value > 1000 THEN Formatted(FALSE, toFixed1(value, 1000), TRUE, "K")
            ELSE Formatted(FALSE, 10 * value, FALSE, "")
      [] format = "percentage" -> Formatted(FALSE, 10 * value, FALSE, "%")
      [] OTHER -> Formatted(FALSE, 10 * value, FALSE, "")

formatValue(value, format) ==
    CASE format = "currency" ->
            IF value >= 10000000 THEN Formatted(TRUE, toFixed1(value, 10000000), TRUE, "Cr")
            ELSE IF value >= 100000 THEN Formatted(TRUE, toFixed1(value, 100000), TRUE, "L")
            ELSE IF value >= 1000 THEN Formatted(TRUE, toFixed1(value, 1000), TRUE, "K")
            ELSE Formatted(TRUE, 10 * value, FALSE, "")
      [] format = "number" ->
            IF value >= 10000000 THEN Formatted(FALSE, toFixed1(value, 10000000), TRUE, "Cr")
            ELSE IF value >= 100000 THEN Formatted(FALSE, toFixed1(value, 100000), TRUE, "L")
            ELSE IF value >= 1000 THEN Formatted(FALSE, toFixed1(value, 1000), TRUE, "K")
            ELSE Formatted(FALSE, 10 * value, FALSE, "")
      [] format = "percentage" -> Formatted(FALSE, 10 * value, FALSE, "%")
      [] OTHER -> Formatted(FALSE, 10 * value, FALSE, "")

Formats == {"currency", "number"}

FormatIn(copy, value, format) ==
    CASE copy = "DataVisualization" ->
            IF format = "currency" THEN formatCurrency(value)
            ELSE LET text == formatNumber(value) IN Formatted(FALSE, text.tenths, FALSE, text.unit)
      [] copy = "mockData" ->
            IF format = "currency" THEN mockData_formatCurrency(value) ELSE mockData_formatNumber(value)
      [] copy = "MetricsComparison" -> formatValue(value, format)

Copies == {"DataVisualization", "mockData", "MetricsComparison"}

Format(copy, value, format) ==
    /\ out' = Output("format", "ok", [copy |-> copy, value |-> value, format |-> format],
                     <<FormatIn(copy, value, format)>>)
    /\ UNCHANGED <<customers, products, transactions, calls, ui, schema, sales_summary>>

Thresholds == {1000, 100000, 10000000}

FormatValues == {0} \cup {t + d : t \in Thresholds, d \in (-MaxOffset)..MaxOffset}

NextFormat == \E copy \in Copies, value \in FormatValues, format \in Formats : Format(copy, value, format)

SpecFormat == Init /\ [][NextFormat]_vars

UnitOf(value) == IF value >= 10000000 THEN "Cr"
                 ELSE IF value >= 100000 THEN "L"
                 ELSE IF value >= 1000 THEN "K"
                 ELSE ""

DivisorOf(unit) == CASE unit = "Cr" -> 10000000
                     [] unit = "L" -> 100000
                     [] unit = "K" -> 1000
                     [] OTHER -> 1

(***************************************************************************)
(* C27: every copy of formatNumber and formatCurrency shows a value of at  *)
(* least 10,000,000 in Cr, of at least 100,000 in L, of at least 1,000 in  *)
(* K and a smaller one unscaled, with the value divided by the unit to one *)
(* decimal; so the copies choose the same unit for every value.            *)
(***************************************************************************)
C27_UnitByMagnitude ==
    out.op = "format" =>
        LET text == out.rows[1]
            value == out.arg.value
        IN  /\ text.unit = UnitOf(value)
            /\ text.currency = (out.arg.format = "currency")
            /\ 2 * DivisorOf(text.unit) * text.tenths - DivisorOf(text.unit) <= 2 * 10 * value
            /\ 2 * 10 * value <= 2 * DivisorOf(text.unit) * text.tenths + DivisorOf(text.unit)

C27_Witness ==
    /\ out.op = "format"
    /\ out.arg = [copy |-> "MetricsComparison", value |-> 10000000, format |-> "currency"]
    /\ out.rows[1] = Formatted(TRUE, 10, TRUE, "Cr")

C27_WitnessBelowLakh ==
    /\ out.op = "format"
    /\ out.arg = [copy |-> "DataVisualization", value |-> 99999, format |-> "number"]
    /\ out.rows[1] = Formatted(FALSE, 1000, FALSE, "K")

Shade(color) == CASE color = "bg-purple-200" -> 2
                  [] color = "bg-purple-300" -> 3
                  [] color = "bg-purple-400" -> 4
                  [] color = "bg-purple-500" -> 5
                  [] color = "bg-purple-600" -> 6

ColourTiles == out.op \in {"heat_map", "render_map"}

(***************************************************************************)
(* C28: in a heat map (or map view) the colour of a tile does not get      *)
(* lighter as the transaction count grows, and the tile with the maximum   *)
(* count is purple-600.                                                    *)
(***************************************************************************)
C28_ColourFollowsCount ==
    ColourTiles =>
        \A i \in 1..Len(out.rows) :
            /\ out.arg[i].transactions = maxTransactions(out.arg) => out.rows[i].color = "bg-purple-600"
            /\ \A j \in 1..Len(out.rows) :
                  out.arg[i].transactions <= out.arg[j].transactions
                      => Shade(out.rows[i].color) <= Shade(out.rows[j].color)

(***************************************************************************)
(* The part of C28 that does not divide by zero: with a positive maximum   *)
(* the colours are as stated, for the rendered tiles and for every count   *)
(* up to a maximum of twenty.                                              *)
(***************************************************************************)
C28_HoldsForPositiveMaximum ==
    /\ (ColourTiles /\ maxTransactions(out.arg) > 0) => C28_ColourFollowsCount
    /\ \A max \in 1..20 :
          /\ getIntensityColor(max, max) = "bg-purple-600"
          /\ \A v \in 0..max, w \in 0..max :
                v <= w => Shade(getIntensityColor(v, max)) <= Shade(getIntensityColor(w, max))

LastClicked == IF ui.lastViewButton = NULL THEN "chart" ELSE ui.lastViewButton

OneRendererShown == /\ ui.viewType \in ViewTypes
                    /\ ShownRenderers = {LastClicked}

(***************************************************************************)
(* C29: DataVisualization shows exactly one of the three renderers, that   *)
(* of the view button clicked last (chart before any click); a change of   *)
(* the state filter changes filterState only, and not the rows displayed.  *)
(***************************************************************************)
C29_OneRendererAndInertFilter ==
    [][/\ OneRendererShown
       /\ OneRendererShown'
       /\ ui'.filterState # ui.filterState =>
             /\ [ui' EXCEPT !.filterState = ui.filterState, !.mapGrowth = ui.mapGrowth] = ui
             /\ DisplayedRows' = DisplayedRows]_vars

C29_Witness ==
    /\ ui.lastViewButton = "map"
    /\ ShownRenderers = {"map"}
    /\ ui.filterState = "delhi"
    /\ ui.selector_selectedDataset = "aggregate-user"

====
